---- MODULE Spec2Model ----
(***************************************************************************)
(* datacur8: the selector engine (internal/selector) and the constraint    *)
(* evaluation engine (internal/constraints) built on it.                   *)
(*                                                                         *)
(* Strings are sequences of byte codes, so that Go's byte-wise string      *)
(* comparison, strings.ToLower and the selector parser are modelled by     *)
(* what they do.  JSON-like values are tagged records:                     *)
(*   [k |-> "string", s |-> bytes]      [k |-> "number", n |-> Int]        *)
(*   [k |-> "bool",   b |-> BOOLEAN]    [k |-> "nil"]                      *)
(*   [k |-> "array",  e |-> <<values>>]                                    *)
(*   [k |-> "map",    m |-> <<[f |-> bytes, v |-> value], ...>>]           *)
(* A map holds each field name at most once.                               *)
(***************************************************************************)
EXTENDS Integers, Sequences, FiniteSets, TLC

VARIABLES
    items,      \* map[string][]Item handed to Evaluate: <<[name, list]>> entries
    typeDefs,   \* []config.TypeDef handed to Evaluate
    errs,       \* the slice returned by the last call of Evaluate
    concat,     \* errs of that call as appended, before sort.Slice
    prevErrs,   \* the slice returned by the call before the last one
    calls,      \* calls of Evaluate made so far: "none", "one" or "many"
    selInput,   \* the string handed to selector.Parse
    selParsed,  \* what Parse returned: the *Selector and the error
    selString,  \* what String() of the parsed selector returned
    selScalar,  \* what IsScalar() of the parsed selector returned
    selData,    \* the root value handed to Selector.Evaluate
    selValues,  \* what Selector.Evaluate returned: the values and the error
    disk,       \* what a run of the validate command finds: flags, configuration, files
    pc,         \* the position of RunValidate
    entries,    \* the report entries RunValidate has collected, by phase
    exitCode,   \* the exit code the command returned, -1 before it returns
    outputs     \* the output files on disk: their content, by path

engineVars == <<items, typeDefs, errs, concat, prevErrs, calls>>
selVars == <<selInput, selParsed, selString, selScalar, selData, selValues>>
runVars == <<disk, pc, entries, exitCode, outputs>>
vars == <<engineVars, selVars, runVars>>

(***************************************************************************)
(* Bounds of the model.                                                    *)
(***************************************************************************)
MaxItems == 4     \* items in a corpus of Spec
MaxRows == 2      \* rows of the CSV file of type beta in a corpus of Spec
MaxUsers == 4     \* items of type user in a corpus of SpecUnique
MaxOrders == 2    \* items of type order in a corpus of SpecForeignKey
MaxTeams == 2     \* items of type team in a corpus of SpecForeignKey
MaxFiles == 2     \* items of type user in a corpus of SpecPathEqualsAttr
MaxAlphas == 2    \* items of type alpha in a corpus of SpecDefective
MaxTokens == 5    \* pieces of selector syntax in a string of SpecParse
MaxSteps == 3     \* steps of a selector of SpecSelector
MaxElems == 2     \* elements of an array in a root value of SpecSelector
MaxDiscovered == 2    \* files discovery finds in a run of SpecValidate
MaxOwners == 2    \* items of type user in a corpus of SpecKeys
MaxReferenced == 1    \* items of type team in a corpus of SpecKeys

(***************************************************************************)
(* Byte strings.                                                           *)
(***************************************************************************)
RECURSIVE StrLess(_, _)
\* Go's s < t on strings: lexicographic on bytes, a proper prefix is smaller.
StrLess(s, t) ==
    IF t = <<>> THEN FALSE
    ELSE IF s = <<>> THEN TRUE
    ELSE IF Head(s) # Head(t) THEN Head(s) < Head(t)
    ELSE StrLess(Tail(s), Tail(t))

\* strings.ToLower on ASCII text: 'A'..'Z' become 'a'..'z'.
ToLower(s) == [i \in 1..Len(s) |-> IF s[i] >= 65 /\ s[i] <= 90 THEN s[i] + 32 ELSE s[i]]

RECURSIVE FormatNat(_)
\* decimal digits of a natural number
FormatNat(n) == IF n < 10 THEN <<48 + n>> ELSE FormatNat(n \div 10) \o <<48 + (n % 10)>>

\* strings.HasPrefix
HasPrefix(s, p) == Len(s) >= Len(p) /\ SubSeq(s, 1, Len(p)) = p

RECURSIVE IndexAny(_, _)
\* strings.IndexAny, zero-based; -1 when no byte of chars occurs in s
IndexAny(s, chars) ==
    IF s = <<>> THEN -1
    ELSE IF Head(s) \in chars THEN 0
    ELSE LET r == IndexAny(Tail(s), chars) IN IF r = -1 THEN -1 ELSE r + 1

(***************************************************************************)
(* internal/selector                                                       *)
(***************************************************************************)
FieldSegment(name) == [field |-> name, wildcard |-> FALSE]
WildcardSegment == [field |-> <<>>, wildcard |-> TRUE]

RECURSIVE ParseRest_EmptyNameAllowed(_, _)
\* the loop of Parse without the check for an empty field name
ParseRest_EmptyNameAllowed(rest, segs) ==
    IF rest = <<>> THEN [ok |-> TRUE, err |-> "", segments |-> segs]
    ELSE IF Head(rest) = 46 THEN
        LET r1 == Tail(rest) IN
        IF r1 = <<>> THEN [ok |-> FALSE, err |-> "trailing dot", segments |-> <<>>]
        ELSE LET ia == IndexAny(r1, {46, 91})
                 end == IF ia = -1 THEN Len(r1) ELSE ia
                 name == SubSeq(r1, 1, end)
             IN ParseRest_EmptyNameAllowed(SubSeq(r1, end + 1, Len(r1)),
                                           Append(segs, FieldSegment(name)))
    ELSE IF HasPrefix(rest, <<91, 42, 93>>) THEN
        ParseRest_EmptyNameAllowed(SubSeq(rest, 4, Len(rest)), Append(segs, WildcardSegment))
    ELSE [ok |-> FALSE, err |-> "unexpected character", segments |-> <<>>]

RECURSIVE ParseRest(_, _)
\* the loop `for rest != ""` of Parse; segs are the segments appended so far
ParseRest(rest, segs) ==
    IF rest = <<>> THEN [ok |-> TRUE, err |-> "", segments |-> segs]
    ELSE IF Head(rest) = 46 THEN
        LET r1 == Tail(rest) IN
        IF r1 = <<>> THEN [ok |-> FALSE, err |-> "trailing dot", segments |-> <<>>]
        ELSE LET ia == IndexAny(r1, {46, 91})
                 end == IF ia = -1 THEN Len(r1) ELSE ia
                 name == SubSeq(r1, 1, end)
             IN IF name = <<>>
                THEN [ok |-> FALSE, err |-> "empty field name", segments |-> <<>>]
                ELSE ParseRest(SubSeq(r1, end + 1, Len(r1)), Append(segs, FieldSegment(name)))
    ELSE IF HasPrefix(rest, <<91, 42, 93>>) THEN
        ParseRest(SubSeq(rest, 4, Len(rest)), Append(segs, WildcardSegment))
    ELSE [ok |-> FALSE, err |-> "unexpected character", segments |-> <<>>]

\* Parse keeping the text after the root marker as raw
Parse_RawWithoutRoot(sel) ==
    IF sel = <<>> THEN [ok |-> FALSE, err |-> "empty selector", raw |-> sel, segments |-> <<>>]
    ELSE IF Head(sel) # 36
        THEN [ok |-> FALSE, err |-> "must start with '$'", raw |-> sel, segments |-> <<>>]
    ELSE LET r == ParseRest(Tail(sel), <<>>)
         IN [ok |-> r.ok, err |-> r.err, raw |-> Tail(sel), segments |-> r.segments]

\* selector.Parse: ok, the error kind, and the Selector {raw, segments}
Parse(sel) ==
    IF sel = <<>> THEN [ok |-> FALSE, err |-> "empty selector", raw |-> sel, segments |-> <<>>]
    ELSE IF Head(sel) # 36
        THEN [ok |-> FALSE, err |-> "must start with '$'", raw |-> sel, segments |-> <<>>]
    ELSE LET r == ParseRest(Tail(sel), <<>>)
         IN [ok |-> r.ok, err |-> r.err, raw |-> sel, segments |-> r.segments]

\* Selector.String
String(s) == s.raw

\* IsScalar looking at the first segment only
IsScalar_FirstSegmentOnly(s) == s.segments = <<>> \/ ~s.segments[1].wildcard

\* Selector.IsScalar
IsScalar(s) == \A i \in 1..Len(s.segments) : ~s.segments[i].wildcard

\* m[field] read without its second result: the zero value of a missing key counts
LookupField_NoExistsCheck(m, field) ==
    IF \E p \in 1..Len(m) : m[p].f = field
    THEN [exists |-> TRUE, v |-> m[CHOOSE p \in 1..Len(m) : m[p].f = field].v]
    ELSE [exists |-> TRUE, v |-> [k |-> "nil"]]

RECURSIVE LookupField_NullIsMissing(_, _)
\* m[field] taking a key whose value is null for a missing key
LookupField_NullIsMissing(m, field) ==
    IF m = <<>> THEN [exists |-> FALSE, v |-> [k |-> "nil"]]
    ELSE IF Head(m).f = field THEN [exists |-> Head(m).v.k # "nil", v |-> Head(m).v]
    ELSE LookupField_NullIsMissing(Tail(m), field)

RECURSIVE LookupField(_, _)
\* m[field] on a map[string]any
LookupField(m, field) ==
    IF m = <<>> THEN [exists |-> FALSE, v |-> [k |-> "nil"]]
    ELSE IF Head(m).f = field THEN [exists |-> TRUE, v |-> Head(m).v]
    ELSE LookupField(Tail(m), field)

RECURSIVE StepAll_KeepsNonSequences(_, _)
\* the loop of resolve passing a candidate that is not a sequence through a wildcard
StepAll_KeepsNonSequences(current, seg) ==
    IF current = <<>> THEN <<>>
    ELSE LET val == Head(current)
             here == IF seg.wildcard
                     THEN IF val.k = "array" THEN val.e ELSE <<val>>
                     ELSE IF val.k = "map"
                          THEN LET l == LookupField(val.m, seg.field)
                               IN IF l.exists THEN <<l.v>> ELSE <<>>
                          ELSE <<>>
         IN here \o StepAll_KeepsNonSequences(Tail(current), seg)

RECURSIVE StepAll(_, _)
\* the loop `for _, val := range current` of resolve, for one segment
StepAll(current, seg) ==
    IF current = <<>> THEN <<>>
    ELSE LET val == Head(current)
             here == IF seg.wildcard
                     THEN IF val.k = "array" THEN val.e ELSE <<>>
                     ELSE IF val.k = "map"
                          THEN LET l == LookupField(val.m, seg.field)
                               IN IF l.exists THEN <<l.v>> ELSE <<>>
                          ELSE <<>>
         IN here \o StepAll(Tail(current), seg)

RECURSIVE resolve(_, _)
resolve(current, segments) ==
    IF segments = <<>> THEN current
    ELSE resolve(StepAll(current, Head(segments)), Tail(segments))

\* Selector.Evaluate (its error result is always nil)
SelEvaluate(s, data) == resolve(<<data>>, s.segments)

(***************************************************************************)
(* fmt.Sprintf("%v", v) on a decoded JSON/YAML/CSV value.                  *)
(***************************************************************************)
RECURSIVE MinField(_, _)
\* the smallest field name among the entries of a non-empty map
MinField(m, best) ==
    IF m = <<>> THEN best
    ELSE MinField(Tail(m), IF StrLess(Head(m).f, best) THEN Head(m).f ELSE best)

RECURSIVE WithoutField(_, _)
WithoutField(m, field) ==
    IF m = <<>> THEN <<>>
    ELSE IF Head(m).f = field THEN Tail(m)
    ELSE <<Head(m)>> \o WithoutField(Tail(m), field)

RECURSIVE SprintV(_)
RECURSIVE SprintElems(_)
RECURSIVE SprintEntries(_)
\* the elements of a slice, separated by one space
SprintElems(e) ==
    IF e = <<>> THEN <<>>
    ELSE IF Len(e) = 1 THEN SprintV(e[1])
    ELSE SprintV(e[1]) \o <<32>> \o SprintElems(Tail(e))

\* the entries of a map as key:value, in ascending key order, separated by one space
SprintEntries(m) ==
    IF m = <<>> THEN <<>>
    ELSE LET f == MinField(Tail(m), Head(m).f)
             one == f \o <<58>> \o SprintV(LookupField(m, f).v)
             others == WithoutField(m, f)
         IN IF others = <<>> THEN one ELSE one \o <<32>> \o SprintEntries(others)

SprintV(v) ==
    CASE v.k = "string" -> v.s
      [] v.k = "number" -> IF v.n < 0 THEN <<45>> \o FormatNat(0 - v.n) ELSE FormatNat(v.n)
      [] v.k = "bool" -> IF v.b THEN <<116, 114, 117, 101>> ELSE <<102, 97, 108, 115, 101>>
      [] v.k = "nil" -> <<60, 110, 105, 108, 62>>
      [] v.k = "array" -> <<91>> \o SprintElems(v.e) \o <<93>>
      [] v.k = "map" -> <<109, 97, 112, 91>> \o SprintEntries(v.m) \o <<93>>

(***************************************************************************)
(* internal/config: ConstraintDef                                          *)
(*   [ID, Type, Key, CaseSensitive, Scope, PathSelector, References]       *)
(* CaseSensitive is the *bool: "unset", "true" or "false".  References is  *)
(* the *ReferenceDef: [isNil |-> TRUE] or [isNil |-> FALSE, Type, Key].    *)
(***************************************************************************)
IsCaseSensitive(cd) == cd.CaseSensitive = "unset" \/ cd.CaseSensitive = "true"

(***************************************************************************)
(* internal/constraints                                                    *)
(***************************************************************************)
NewError(constraintID, constraintType, typeName, filePath, message, rowIndex) ==
    [ConstraintID |-> constraintID, ConstraintType |-> constraintType,
     TypeName |-> typeName, FilePath |-> filePath,
     Message |-> message, RowIndex |-> rowIndex]

\* a message: the format string of the fmt.Sprintf call and its arguments
Msg(format, args) == [format |-> format, args |-> args]

\* normalizeKey telling the kinds of value apart, a string in quotes as %#v prints it
normalizeKey_QuotesStrings(v, caseSensitive) ==
    LET s == IF v.k = "string" THEN <<34>> \o v.s \o <<34>> ELSE SprintV(v)
    IN IF ~caseSensitive THEN ToLower(s) ELSE s

\* normalizeKey without the strings.ToLower branch
normalizeKey_NeverFolds(v, caseSensitive) == SprintV(v)

normalizeKey(v, caseSensitive) ==
    LET s == SprintV(v) IN IF ~caseSensitive THEN ToLower(s) ELSE s

RECURSIVE IndexAdd(_, _, _)
\* index[key] = append(index[key], seen); the index lists its keys in insertion order
IndexAdd(index, key, seen) ==
    IF index = <<>> THEN <<[key |-> key, entries |-> <<seen>>]>>
    ELSE IF Head(index).key = key
        THEN <<[key |-> key, entries |-> Append(Head(index).entries, seen)]>> \o Tail(index)
    ELSE <<Head(index)>> \o IndexAdd(Tail(index), key, seen)

RECURSIVE BuildUniqueIndex_AdjacentOnly(_, _, _, _)
\* the first loop of evalUniqueTypeScope grouping a key only with the items
\* right before it, as if the items came sorted by key
BuildUniqueIndex_AdjacentOnly(its, sel, caseSensitive, index) ==
    IF its = <<>> THEN index
    ELSE LET item == Head(its)
             vals == SelEvaluate(sel, item.Data)
             seen == [filePath |-> item.FilePath, rowIndex |-> item.RowIndex]
         IN IF Len(vals) = 0
            THEN BuildUniqueIndex_AdjacentOnly(Tail(its), sel, caseSensitive, index)
            ELSE LET key == normalizeKey(vals[1], caseSensitive)
                     n == Len(index)
                 IN BuildUniqueIndex_AdjacentOnly(Tail(its), sel, caseSensitive,
                        IF n > 0 /\ index[n].key = key
                        THEN [index EXCEPT ![n].entries = Append(@, seen)]
                        ELSE Append(index, [key |-> key, entries |-> <<seen>>]))

RECURSIVE BuildUniqueIndex(_, _, _, _)
\* the first loop of evalUniqueTypeScope
BuildUniqueIndex(its, sel, caseSensitive, index) ==
    IF its = <<>> THEN index
    ELSE LET item == Head(its)
             vals == SelEvaluate(sel, item.Data)
         IN IF Len(vals) = 0
            THEN BuildUniqueIndex(Tail(its), sel, caseSensitive, index)
            ELSE BuildUniqueIndex(Tail(its), sel, caseSensitive,
                     IndexAdd(index, normalizeKey(vals[1], caseSensitive),
                              [filePath |-> item.FilePath, rowIndex |-> item.RowIndex]))

RECURSIVE TypeScopeErrors_AllButFirst(_, _, _, _, _, _)
\* the second loop of evalUniqueTypeScope reporting every entry of a key but its first
TypeScopeErrors_AllButFirst(typeName, constraintID, cd, index, order, i) ==
    IF i > Len(order) THEN <<>>
    ELSE LET g == index[order[i]]
             here == IF Len(g.entries) < 2 THEN <<>>
                     ELSE [j \in 1..(Len(g.entries) - 1) |->
                             NewError(constraintID, "unique", typeName,
                                      g.entries[j + 1].filePath,
                                      Msg("duplicate value %q for key %s", <<g.key, cd.Key>>),
                                      g.entries[j + 1].rowIndex)]
         IN here \o TypeScopeErrors_AllButFirst(typeName, constraintID, cd, index, order, i + 1)

RECURSIVE TypeScopeErrors(_, _, _, _, _, _)
\* the second loop of evalUniqueTypeScope, ranging over the index in the given order
TypeScopeErrors(typeName, constraintID, cd, index, order, i) ==
    IF i > Len(order) THEN <<>>
    ELSE LET g == index[order[i]]
             here == IF Len(g.entries) < 2 THEN <<>>
                     ELSE [j \in 1..Len(g.entries) |->
                             NewError(constraintID, "unique", typeName, g.entries[j].filePath,
                                      Msg("duplicate value %q for key %s", <<g.key, cd.Key>>),
                                      g.entries[j].rowIndex)]
         IN here \o TypeScopeErrors(typeName, constraintID, cd, index, order, i + 1)

\* evalUniqueTypeScope: the slices it can return, one for each order in which
\* `range index` can visit the keys of the map
evalUniqueTypeScope(typeName, constraintID, cd, sel, caseSensitive, its) ==
    LET index == BuildUniqueIndex(its, sel, caseSensitive, <<>>)
    IN {TypeScopeErrors(typeName, constraintID, cd, index, order, 1) :
            order \in Permutations(1..Len(index))}

RECURSIVE ItemScopeScan_FlagOnce(_, _, _, _, _, _, _)
\* the inner loop of evalUniqueItemScope dropping a value from seen once it is reported
ItemScopeScan_FlagOnce(typeName, constraintID, cd, caseSensitive, item, vals, seen) ==
    IF vals = <<>> THEN <<>>
    ELSE LET key == normalizeKey(Head(vals), caseSensitive)
             here == IF key \in seen
                     THEN <<NewError(constraintID, "unique", typeName, item.FilePath,
                                Msg("duplicate value %q for key %s within item", <<key, cd.Key>>),
                                item.RowIndex)>>
                     ELSE <<>>
         IN here \o ItemScopeScan_FlagOnce(typeName, constraintID, cd, caseSensitive, item,
                        Tail(vals), IF key \in seen THEN seen \ {key} ELSE seen \cup {key})

RECURSIVE ItemScopeScan(_, _, _, _, _, _, _)
\* the inner loop of evalUniqueItemScope over the values of one item
ItemScopeScan(typeName, constraintID, cd, caseSensitive, item, vals, seen) ==
    IF vals = <<>> THEN <<>>
    ELSE LET key == normalizeKey(Head(vals), caseSensitive)
             here == IF key \in seen
                     THEN <<NewError(constraintID, "unique", typeName, item.FilePath,
                                Msg("duplicate value %q for key %s within item", <<key, cd.Key>>),
                                item.RowIndex)>>
                     ELSE <<>>
         IN here \o ItemScopeScan(typeName, constraintID, cd, caseSensitive, item,
                                  Tail(vals), seen \cup {key})

RECURSIVE evalUniqueItemScope(_, _, _, _, _, _)
evalUniqueItemScope(typeName, constraintID, cd, sel, caseSensitive, its) ==
    IF its = <<>> THEN <<>>
    ELSE ItemScopeScan(typeName, constraintID, cd, caseSensitive, Head(its),
                       SelEvaluate(sel, Head(its).Data), {})
         \o evalUniqueItemScope(typeName, constraintID, cd, sel, caseSensitive, Tail(its))

\* the branch of evalUnique taken on the scope alone
UsesTypeScope_ScopeOnly(cd, sel) == cd.Scope = "type"

\* the branch of evalUnique: TRUE for evalUniqueTypeScope, FALSE for evalUniqueItemScope
UsesTypeScope(cd, sel) == IsScalar(sel) /\ cd.Scope = "type"

\* evalUnique: the slices it can return
evalUnique(typeName, constraintID, cd, its) ==
    LET sel == Parse(cd.Key) IN
    IF ~sel.ok
    THEN {<<NewError(constraintID, "unique", typeName, <<>>,
                     Msg("invalid selector %q: %v", <<cd.Key, sel.err>>), -1)>>}
    ELSE IF UsesTypeScope(cd, sel)
    THEN evalUniqueTypeScope(typeName, constraintID, cd, sel, IsCaseSensitive(cd), its)
    ELSE {evalUniqueItemScope(typeName, constraintID, cd, sel, IsCaseSensitive(cd), its)}

\* allItems[name] on the map[string][]Item: the nil slice when the key is absent
ItemsOf(allItems, name) == IF name \in DOMAIN allItems THEN allItems[name] ELSE <<>>

RECURSIVE BuildRefIndex_FirstOfAny(_, _, _)
\* the loop filling refIndex with the first value of every item that has one
BuildRefIndex_FirstOfAny(refItems, refSel, refIndex) ==
    IF refItems = <<>> THEN refIndex
    ELSE LET vals == SelEvaluate(refSel, Head(refItems).Data)
         IN BuildRefIndex_FirstOfAny(Tail(refItems), refSel,
                IF Len(vals) >= 1 THEN refIndex \cup {normalizeKey(vals[1], TRUE)} ELSE refIndex)

RECURSIVE BuildRefIndex(_, _, _)
\* the loop of evalForeignKey that fills refIndex (a set of keys)
BuildRefIndex(refItems, refSel, refIndex) ==
    IF refItems = <<>> THEN refIndex
    ELSE LET vals == SelEvaluate(refSel, Head(refItems).Data)
         IN BuildRefIndex(Tail(refItems), refSel,
                IF Len(vals) = 1 THEN refIndex \cup {normalizeKey(vals[1], TRUE)} ELSE refIndex)

RECURSIVE ForeignKeyScan_NoCardinalityCheck(_, _, _, _, _, _)
\* the loop of evalForeignKey looking up the first value of an item that has several
ForeignKeyScan_NoCardinalityCheck(typeName, constraintID, cd, keySel, refIndex, its) ==
    IF its = <<>> THEN <<>>
    ELSE LET item == Head(its)
             vals == SelEvaluate(keySel, item.Data)
             here ==
                IF Len(vals) = 0 THEN <<>>
                ELSE LET key == normalizeKey(vals[1], TRUE)
                     IN IF key \notin refIndex
                        THEN <<NewError(constraintID, "foreign_key", typeName, item.FilePath,
                                  Msg("foreign key %q not found in %s.%s",
                                      <<key, cd.References.Type, cd.References.Key>>),
                                  item.RowIndex)>>
                        ELSE <<>>
         IN here \o ForeignKeyScan_NoCardinalityCheck(typeName, constraintID, cd, keySel,
                                                      refIndex, Tail(its))

RECURSIVE ForeignKeyScan_FoldsCase(_, _, _, _, _, _)
\* the loop of evalForeignKey normalizing under the case policy of the constraint
ForeignKeyScan_FoldsCase(typeName, constraintID, cd, keySel, refIndex, its) ==
    IF its = <<>> THEN <<>>
    ELSE LET item == Head(its)
             vals == SelEvaluate(keySel, item.Data)
             here ==
                IF Len(vals) = 0 THEN <<>>
                ELSE IF Len(vals) > 1
                THEN <<NewError(constraintID, "foreign_key", typeName, item.FilePath,
                          Msg("key selector %s resolved to multiple values; expected scalar",
                              <<cd.Key>>), item.RowIndex)>>
                ELSE LET key == normalizeKey(vals[1], IsCaseSensitive(cd))
                         index == IF IsCaseSensitive(cd) THEN refIndex
                                  ELSE {ToLower(k) : k \in refIndex}
                     IN IF key \notin index
                        THEN <<NewError(constraintID, "foreign_key", typeName, item.FilePath,
                                  Msg("foreign key %q not found in %s.%s",
                                      <<key, cd.References.Type, cd.References.Key>>),
                                  item.RowIndex)>>
                        ELSE <<>>
         IN here \o ForeignKeyScan_FoldsCase(typeName, constraintID, cd, keySel, refIndex,
                                             Tail(its))

RECURSIVE ForeignKeyScan(_, _, _, _, _, _)
\* the loop of evalForeignKey over the items of the owning type
ForeignKeyScan(typeName, constraintID, cd, keySel, refIndex, its) ==
    IF its = <<>> THEN <<>>
    ELSE LET item == Head(its)
             vals == SelEvaluate(keySel, item.Data)
             here ==
                IF Len(vals) = 0 THEN <<>>
                ELSE IF Len(vals) > 1
                THEN <<NewError(constraintID, "foreign_key", typeName, item.FilePath,
                          Msg("key selector %s resolved to multiple values; expected scalar",
                              <<cd.Key>>), item.RowIndex)>>
                ELSE LET key == normalizeKey(vals[1], TRUE)
                     IN IF key \notin refIndex
                        THEN <<NewError(constraintID, "foreign_key", typeName, item.FilePath,
                                  Msg("foreign key %q not found in %s.%s",
                                      <<key, cd.References.Type, cd.References.Key>>),
                                  item.RowIndex)>>
                        ELSE <<>>
         IN here \o ForeignKeyScan(typeName, constraintID, cd, keySel, refIndex, Tail(its))

\* evalForeignKey reporting an invalid key selector once for every item of the type
evalForeignKey_InvalidKeyPerItem(typeName, constraintID, cd, its, allItems) ==
    IF cd.References.isNil
    THEN <<NewError(constraintID, "foreign_key", typeName, <<>>,
                    Msg("missing references definition", <<>>), -1)>>
    ELSE LET keySel == Parse(cd.Key) IN
    IF ~keySel.ok
    THEN [i \in 1..Len(its) |->
            NewError(constraintID, "foreign_key", typeName, its[i].FilePath,
                     Msg("invalid key selector %q: %v", <<cd.Key, keySel.err>>),
                     its[i].RowIndex)]
    ELSE LET refSel == Parse(cd.References.Key) IN
    IF ~refSel.ok
    THEN <<NewError(constraintID, "foreign_key", typeName, <<>>,
                    Msg("invalid references.key selector %q: %v",
                        <<cd.References.Key, refSel.err>>), -1)>>
    ELSE ForeignKeyScan(typeName, constraintID, cd, keySel,
             BuildRefIndex(ItemsOf(allItems, cd.References.Type), refSel, {}), its)

evalForeignKey(typeName, constraintID, cd, its, allItems) ==
    IF cd.References.isNil
    THEN <<NewError(constraintID, "foreign_key", typeName, <<>>,
                    Msg("missing references definition", <<>>), -1)>>
    ELSE LET keySel == Parse(cd.Key) IN
    IF ~keySel.ok
    THEN <<NewError(constraintID, "foreign_key", typeName, <<>>,
                    Msg("invalid key selector %q: %v", <<cd.Key, keySel.err>>), -1)>>
    ELSE LET refSel == Parse(cd.References.Key) IN
    IF ~refSel.ok
    THEN <<NewError(constraintID, "foreign_key", typeName, <<>>,
                    Msg("invalid references.key selector %q: %v",
                        <<cd.References.Key, refSel.err>>), -1)>>
    ELSE ForeignKeyScan(typeName, constraintID, cd, keySel,
             BuildRefIndex(ItemsOf(allItems, cd.References.Type), refSel, {}), its)

RECURSIVE resolvePathSelector(_, _)
\* captures[pathSelector] on the map[string]string: the value and whether it is present
resolvePathSelector(pathSelector, captures) ==
    IF captures = <<>> THEN [ok |-> FALSE, v |-> <<>>]
    ELSE IF Head(captures).f = pathSelector THEN [ok |-> TRUE, v |-> Head(captures).v]
    ELSE resolvePathSelector(pathSelector, Tail(captures))

\* the body of the loop examining the attribute before the path captures
PathEqualsAttrItem_AttrFirst(typeName, constraintID, cd, attrSel, caseSensitive, item) ==
    LET vals == SelEvaluate(attrSel, item.Data) IN
    IF Len(vals) = 0
    THEN <<NewError(constraintID, "path_equals_attr", typeName, item.FilePath,
              Msg("attribute selector %s resolved to no values", <<cd.References.Key>>),
              item.RowIndex)>>
    ELSE IF Len(vals) > 1
    THEN <<NewError(constraintID, "path_equals_attr", typeName, item.FilePath,
              Msg("attribute selector %s resolved to multiple values; expected scalar",
                  <<cd.References.Key>>), item.RowIndex)>>
    ELSE LET pr == resolvePathSelector(cd.PathSelector, item.PathCaptures) IN
    IF ~pr.ok
    THEN <<NewError(constraintID, "path_equals_attr", typeName, item.FilePath,
              Msg("path_selector %q not found in path captures", <<cd.PathSelector>>),
              item.RowIndex)>>
    ELSE LET attrVal == normalizeKey(vals[1], caseSensitive)
             pv == IF ~caseSensitive THEN ToLower(pr.v) ELSE pr.v
         IN IF pv # attrVal
            THEN <<NewError(constraintID, "path_equals_attr", typeName, item.FilePath,
                      Msg("path value %q does not match attribute value %q", <<pr.v, vals[1]>>),
                      item.RowIndex)>>
            ELSE <<>>

\* the body of the loop folding the attribute value but not the path value
PathEqualsAttrItem_PathNotFolded(typeName, constraintID, cd, attrSel, caseSensitive, item) ==
    LET pr == resolvePathSelector(cd.PathSelector, item.PathCaptures) IN
    IF ~pr.ok
    THEN <<NewError(constraintID, "path_equals_attr", typeName, item.FilePath,
              Msg("path_selector %q not found in path captures", <<cd.PathSelector>>),
              item.RowIndex)>>
    ELSE LET vals == SelEvaluate(attrSel, item.Data) IN
    IF Len(vals) = 0
    THEN <<NewError(constraintID, "path_equals_attr", typeName, item.FilePath,
              Msg("attribute selector %s resolved to no values", <<cd.References.Key>>),
              item.RowIndex)>>
    ELSE IF Len(vals) > 1
    THEN <<NewError(constraintID, "path_equals_attr", typeName, item.FilePath,
              Msg("attribute selector %s resolved to multiple values; expected scalar",
                  <<cd.References.Key>>), item.RowIndex)>>
    ELSE IF pr.v # normalizeKey(vals[1], caseSensitive)
         THEN <<NewError(constraintID, "path_equals_attr", typeName, item.FilePath,
                   Msg("path value %q does not match attribute value %q", <<pr.v, vals[1]>>),
                   item.RowIndex)>>
         ELSE <<>>

\* the body of the loop of evalPathEqualsAttr for one item
PathEqualsAttrItem(typeName, constraintID, cd, attrSel, caseSensitive, item) ==
    LET pr == resolvePathSelector(cd.PathSelector, item.PathCaptures) IN
    IF ~pr.ok
    THEN <<NewError(constraintID, "path_equals_attr", typeName, item.FilePath,
              Msg("path_selector %q not found in path captures", <<cd.PathSelector>>),
              item.RowIndex)>>
    ELSE LET vals == SelEvaluate(attrSel, item.Data) IN
    IF Len(vals) = 0
    THEN <<NewError(constraintID, "path_equals_attr", typeName, item.FilePath,
              Msg("attribute selector %s resolved to no values", <<cd.References.Key>>),
              item.RowIndex)>>
    ELSE IF Len(vals) > 1
    THEN <<NewError(constraintID, "path_equals_attr", typeName, item.FilePath,
              Msg("attribute selector %s resolved to multiple values; expected scalar",
                  <<cd.References.Key>>), item.RowIndex)>>
    ELSE LET attrVal == normalizeKey(vals[1], caseSensitive)
             pv == IF ~caseSensitive THEN ToLower(pr.v) ELSE pr.v
         IN IF pv # attrVal
            THEN <<NewError(constraintID, "path_equals_attr", typeName, item.FilePath,
                      Msg("path value %q does not match attribute value %q", <<pr.v, vals[1]>>),
                      item.RowIndex)>>
            ELSE <<>>

RECURSIVE PathEqualsAttrScan(_, _, _, _, _, _)
PathEqualsAttrScan(typeName, constraintID, cd, attrSel, caseSensitive, its) ==
    IF its = <<>> THEN <<>>
    ELSE PathEqualsAttrItem(typeName, constraintID, cd, attrSel, caseSensitive, Head(its))
         \o PathEqualsAttrScan(typeName, constraintID, cd, attrSel, caseSensitive, Tail(its))

evalPathEqualsAttr(typeName, constraintID, cd, its) ==
    IF cd.References.isNil
    THEN <<NewError(constraintID, "path_equals_attr", typeName, <<>>,
                    Msg("missing references definition", <<>>), -1)>>
    ELSE LET attrSel == Parse(cd.References.Key) IN
    IF ~attrSel.ok
    THEN <<NewError(constraintID, "path_equals_attr", typeName, <<>>,
                    Msg("invalid references.key selector %q: %v",
                        <<cd.References.Key, attrSel.err>>), -1)>>
    ELSE PathEqualsAttrScan(typeName, constraintID, cd, attrSel, IsCaseSensitive(cd), its)

\* the fallback id counting the constraints from 1
ConstraintIDOf_OneBased(cd, ci) == IF cd.ID = <<>> THEN <<35>> \o FormatNat(ci + 1) ELSE cd.ID

\* the constraint id Evaluate uses: cd.ID, or "#<ci>" with ci counted from 0
ConstraintIDOf(cd, ci) == IF cd.ID = <<>> THEN <<35>> \o FormatNat(ci) ELSE cd.ID

\* the switch of Evaluate handed the items of every type, not those of td.Name
EvalConstraint_ItemsOfEveryType(td, ci, allItems) ==
    LET cd == td.Constraints[ci + 1]
        constraintID == ConstraintIDOf(cd, ci)
        RECURSIVE Every(_)
        Every(names) ==
            IF names = {} THEN <<>>
            ELSE LET n == CHOOSE x \in names : TRUE
                 IN allItems[n] \o Every(names \ {n})
        typeItems == Every(DOMAIN allItems)
    IN CASE cd.Type = "unique" -> evalUnique(td.Name, constraintID, cd, typeItems)
         [] cd.Type = "foreign_key" ->
                {evalForeignKey(td.Name, constraintID, cd, typeItems, allItems)}
         [] cd.Type = "path_equals_attr" ->
                {evalPathEqualsAttr(td.Name, constraintID, cd, typeItems)}
         [] OTHER -> {<<>>}

\* the switch of Evaluate on cd.Type: the slices ces can be
EvalConstraint(td, ci, allItems) ==
    LET cd == td.Constraints[ci + 1]
        constraintID == ConstraintIDOf(cd, ci)
        typeItems == ItemsOf(allItems, td.Name)
    IN CASE cd.Type = "unique" -> evalUnique(td.Name, constraintID, cd, typeItems)
         [] cd.Type = "foreign_key" ->
                {evalForeignKey(td.Name, constraintID, cd, typeItems, allItems)}
         [] cd.Type = "path_equals_attr" ->
                {evalPathEqualsAttr(td.Name, constraintID, cd, typeItems)}
         [] OTHER -> {<<>>}

RECURSIVE AppendConstraints_StopsAtFirstViolation(_, _, _)
\* the inner loop of Evaluate leaving the type at the first constraint that reports
AppendConstraints_StopsAtFirstViolation(td, ci, allItems) ==
    IF ci >= Len(td.Constraints) THEN {<<>>}
    ELSE UNION {IF ces # <<>> THEN {ces}
                ELSE AppendConstraints_StopsAtFirstViolation(td, ci + 1, allItems) :
                   ces \in EvalConstraint(td, ci, allItems)}

RECURSIVE AppendConstraints(_, _, _)
\* the inner loop of Evaluate from constraint ci on: what it can append to errs
AppendConstraints(td, ci, allItems) ==
    IF ci >= Len(td.Constraints) THEN {<<>>}
    ELSE {ces \o more : ces \in EvalConstraint(td, ci, allItems),
                        more \in AppendConstraints(td, ci + 1, allItems)}

RECURSIVE AppendTypes(_, _)
\* the outer loop of Evaluate: the values errs can have before sort.Slice
AppendTypes(tds, allItems) ==
    IF tds = <<>> THEN {<<>>}
    ELSE {a \o b : a \in AppendConstraints(Head(tds), 0, allItems),
                   b \in AppendTypes(Tail(tds), allItems)}

\* less with the file path comparison left out
less_NoFilePath(ei, ej) ==
    IF ei.TypeName # ej.TypeName THEN StrLess(ei.TypeName, ej.TypeName)
    ELSE IF ei.ConstraintID # ej.ConstraintID THEN StrLess(ei.ConstraintID, ej.ConstraintID)
    ELSE ei.RowIndex < ej.RowIndex

\* the less function Evaluate hands to sort.Slice
less(ei, ej) ==
    IF ei.TypeName # ej.TypeName THEN StrLess(ei.TypeName, ej.TypeName)
    ELSE IF ei.ConstraintID # ej.ConstraintID THEN StrLess(ei.ConstraintID, ej.ConstraintID)
    ELSE IF ei.FilePath # ej.FilePath THEN StrLess(ei.FilePath, ej.FilePath)
    ELSE ei.RowIndex < ej.RowIndex

RECURSIVE SortArrangements(_, _)
\* the arrangements of the elements of s at the positions R that put no element
\* after one it is less than
SortArrangements(s, R) ==
    IF R = {} THEN {<<>>}
    ELSE UNION {{<<s[i]>> \o t : t \in SortArrangements(s, R \ {i})} :
                   i \in {j \in R : \A k \in R : ~less(s[k], s[j])}}

\* sort.Slice(s, less): sorted by less, and not guaranteed to be stable (elements
\* that compare equal may come out in any order), so every such arrangement
SortSlice(s) == SortArrangements(s, 1..Len(s))

\* Evaluate: the slices it can return, each with errs as it was before the sort
EvaluateOutcomes(allItems, tds) ==
    UNION {{[concat |-> c, errs |-> e] : e \in SortSlice(c)} : c \in AppendTypes(tds, allItems)}

(***************************************************************************)
(* Inputs: values, items, constraint and type definitions.                 *)
(***************************************************************************)
StringV(s) == [k |-> "string", s |-> s]
NumberV(n) == [k |-> "number", n |-> n]
BoolV(b) == [k |-> "bool", b |-> b]
NilV == [k |-> "nil"]
ArrayV(e) == [k |-> "array", e |-> e]
MapV(m) == [k |-> "map", m |-> m]
Entry(f, v) == [f |-> f, v |-> v]

NewItem(typeName, filePath, data, pathCaptures, rowIndex) ==
    [TypeName |-> typeName, FilePath |-> filePath, Data |-> data,
     PathCaptures |-> pathCaptures, RowIndex |-> rowIndex]

NoReferences == [isNil |-> TRUE, Type |-> <<>>, Key |-> <<>>]
ReferenceDef(type, key) == [isNil |-> FALSE, Type |-> type, Key |-> key]

ConstraintDef(id, type, key, caseSensitive, scope, pathSelector, references) ==
    [ID |-> id, Type |-> type, Key |-> key, CaseSensitive |-> caseSensitive,
     Scope |-> scope, PathSelector |-> pathSelector, References |-> references]

TypeDef(name, constraints) == [Name |-> name, Constraints |-> constraints]

UniqueDef(id, key, scope, caseSensitive) ==
    ConstraintDef(id, "unique", key, caseSensitive, scope, <<>>, NoReferences)
ForeignKeyDef(id, key, refType, refKey) ==
    ConstraintDef(id, "foreign_key", key, "unset", "type", <<>>, ReferenceDef(refType, refKey))
PathEqualsAttrDef(id, pathSelector, refKey, caseSensitive) ==
    ConstraintDef(id, "path_equals_attr", <<>>, caseSensitive, "type", pathSelector,
                  ReferenceDef(<<>>, refKey))

SeqsUpTo(S, n) == UNION {[1..m -> S] : m \in 0..n}
Reverse(s) == [i \in 1..Len(s) |-> s[Len(s) + 1 - i]]

\* the corpus map: a type without items has no key
Corpus(names, lists) == [n \in {m \in names : lists[m] # <<>>} |-> lists[n]]

s_id == <<105, 100>>                                    \* "id"
s_tags == <<116, 97, 103, 115>>                         \* "tags"
s_ref == <<114, 101, 102>>                              \* "ref"
sel_id == <<36, 46, 105, 100>>                          \* "$.id"
sel_tags_all == <<36, 46, 116, 97, 103, 115, 91, 42, 93>>   \* "$.tags[*]"
sel_tags == <<36, 46, 116, 97, 103, 115>>               \* "$.tags"
sel_ref == <<36, 46, 114, 101, 102>>                    \* "$.ref"
sel_trailing_dot == <<36, 46>>                          \* "$."
path_file == <<112, 97, 116, 104, 46, 102, 105, 108, 101>>  \* "path.file"

(***************************************************************************)
(* Spec: two types, alpha (one JSON file per item) and beta (the rows of   *)
(* one CSV file), with constraints of every kind.                          *)
(***************************************************************************)
t_alpha == <<97, 108, 112, 104, 97>>    \* "alpha"
t_beta == <<98, 101, 116, 97>>          \* "beta"
f_csv == <<100, 46, 99, 115, 118>>      \* "d.csv"

AlphaPool ==
    {MapV(<<Entry(s_id, StringV(<<97>>)),
            Entry(s_tags, ArrayV(<<StringV(<<120>>), StringV(<<121>>), StringV(<<120>>)>>))>>),
     MapV(<<Entry(s_id, StringV(<<98>>))>>)}

BetaPool ==
    {MapV(<<Entry(s_id, NumberV(7)), Entry(s_ref, StringV(<<97>>))>>),
     MapV(<<Entry(s_id, NumberV(7)), Entry(s_ref, StringV(<<99>>))>>)}

\* item i of alpha: file "a<i>", path.file "a<i>"
AlphaItems(datas) ==
    [i \in 1..Len(datas) |->
        NewItem(t_alpha, <<97>> \o FormatNat(i), datas[i],
                <<Entry(path_file, <<97>> \o FormatNat(i))>>, -1)]

\* row i of the CSV file of beta
BetaItems(datas) ==
    [i \in 1..Len(datas) |->
        NewItem(t_beta, f_csv, datas[i], <<Entry(path_file, <<100>>)>>, i - 1)]

AlphaConstraintLists ==
    {<<UniqueDef(<<117>>, sel_id, "type", "unset")>>,
     <<UniqueDef(<<117>>, sel_id, "type", "unset"),
       UniqueDef(<<>>, sel_tags, "type", "unset")>>,
     <<PathEqualsAttrDef(<<>>, path_file, sel_id, "unset"),
       UniqueDef(<<>>, sel_tags_all, "type", "unset")>>}

BetaConstraintLists ==
    {<<ForeignKeyDef(<<>>, sel_ref, t_alpha, sel_id)>>,
     <<UniqueDef(<<98>>, sel_id, "type", "unset"),
       UniqueDef(<<98>>, sel_ref, "type", "unset"),
       UniqueDef(<<97>>, sel_trailing_dot, "type", "unset")>>}

InitInputs ==
    \E bd \in SeqsUpTo(BetaPool, MaxRows) :
    \E ad \in SeqsUpTo(AlphaPool, MaxItems - Len(bd)),
       rev \in BOOLEAN,
       ac \in AlphaConstraintLists, bc \in BetaConstraintLists :
        LET a == IF rev THEN Reverse(AlphaItems(ad)) ELSE AlphaItems(ad)
            b == IF rev THEN Reverse(BetaItems(bd)) ELSE BetaItems(bd)
        IN /\ items = Corpus({t_alpha, t_beta}, [n \in {t_alpha, t_beta} |->
                                                    IF n = t_alpha THEN a ELSE b])
           /\ typeDefs = IF rev THEN <<TypeDef(t_beta, bc), TypeDef(t_alpha, ac)>>
                                 ELSE <<TypeDef(t_alpha, ac), TypeDef(t_beta, bc)>>

NoCallYet == errs = <<>> /\ concat = <<>> /\ prevErrs = <<>> /\ calls = "none"

\* no selector has been parsed
NotParsed == [called |-> FALSE, ok |-> FALSE, err |-> "", raw |-> <<>>, segments |-> <<>>]
NotRendered == [called |-> FALSE, s |-> <<>>]
NotAsked == [called |-> FALSE, scalar |-> FALSE]
NotEvaluated == [called |-> FALSE, vals |-> <<>>, err |-> "nil"]
NoSelector ==
    /\ selInput = <<>>
    /\ selData = NilV
    /\ selParsed = NotParsed
    /\ selString = NotRendered
    /\ selScalar = NotAsked
    /\ selValues = NotEvaluated

\* the validate command is not running
NoEntries == [parse |-> <<>>, schema |-> <<>>, constraint |-> <<>>, reported |-> <<>>]
NoRun ==
    /\ disk = [configOnly |-> FALSE, configErrs |-> 0, discoverErrs |-> 0,
               strictMode |-> "DISABLED", files |-> <<>>]
    /\ pc = "idle"
    /\ entries = NoEntries
    /\ exitCode = -1
    /\ outputs = <<>>

\* Evaluate called on its own, as the tests of the package call it
EngineOnly == NoCallYet /\ NoSelector /\ NoRun

Init == InitInputs /\ EngineOnly

\* Evaluate keeping its result slice between calls and appending to it
Evaluate_AppendsToLastResult ==
    /\ \E o \in EvaluateOutcomes(items, typeDefs) :
        /\ errs' = errs \o o.errs
        /\ concat' = errs \o o.concat
    /\ prevErrs' = errs
    /\ calls' = IF calls = "none" THEN "one" ELSE "many"
    /\ pc = "idle"
    /\ UNCHANGED <<items, typeDefs, selVars, runVars>>

\* one call Evaluate(items, typeDefs); the inputs stay as they are between calls
Evaluate ==
    /\ \E o \in EvaluateOutcomes(items, typeDefs) :
        /\ errs' = o.errs
        /\ concat' = o.concat
    /\ prevErrs' = errs
    /\ calls' = IF calls = "none" THEN "one" ELSE "many"
    /\ pc = "idle"
    /\ UNCHANGED <<items, typeDefs, selVars, runVars>>

Next == Evaluate

Spec == Init /\ [][Next]_vars

(***************************************************************************)
(* SpecUnique: one type, user, with one unique constraint; its items are   *)
(* JSON files or the rows of one CSV file.                                 *)
(***************************************************************************)
t_user == <<117, 115, 101, 114>>    \* "user"

UserPool ==
    {MapV(<<>>),
     MapV(<<Entry(s_id, StringV(<<97>>)),
            Entry(s_tags, ArrayV(<<StringV(<<120>>), StringV(<<121>>)>>))>>),
     MapV(<<Entry(s_id, StringV(<<65>>)),
            Entry(s_tags, ArrayV(<<StringV(<<120>>), StringV(<<120>>), StringV(<<88>>)>>))>>)}

\* item i of user: row i-1 of "d.csv", or the file "u<i>"
UserItems(datas, csv) ==
    [i \in 1..Len(datas) |->
        IF csv THEN NewItem(t_user, f_csv, datas[i], <<Entry(path_file, <<100>>)>>, i - 1)
        ELSE NewItem(t_user, <<117>> \o FormatNat(i), datas[i],
                     <<Entry(path_file, <<117>> \o FormatNat(i))>>, -1)]

UniqueDefs ==
    {UniqueDef(<<>>, key, scope, cs) :
        key \in {sel_id, sel_tags_all}, scope \in {"type", "item"},
        cs \in {"unset", "true", "false"}}

InitUniqueInputs ==
    \E ud \in SeqsUpTo(UserPool, MaxUsers), csv \in BOOLEAN, cd \in UniqueDefs :
        /\ items = Corpus({t_user}, [n \in {t_user} |-> UserItems(ud, csv)])
        /\ typeDefs = <<TypeDef(t_user, <<cd>>)>>

InitUnique == InitUniqueInputs /\ EngineOnly

SpecUnique == InitUnique /\ [][Next]_vars

(***************************************************************************)
(* SpecForeignKey: type order with one foreign_key constraint into type    *)
(* team; team has no constraint of its own.                                *)
(***************************************************************************)
t_order == <<111, 114, 100, 101, 114>>      \* "order"
t_team == <<116, 101, 97, 109>>             \* "team"
s_refs == <<114, 101, 102, 115>>            \* "refs"
s_ids == <<105, 100, 115>>                  \* "ids"
sel_refs_all == <<36, 46, 114, 101, 102, 115, 91, 42, 93>>  \* "$.refs[*]"
sel_ids_all == <<36, 46, 105, 100, 115, 91, 42, 93>>        \* "$.ids[*]"

OrderPool ==
    {MapV(<<>>),
     MapV(<<Entry(s_ref, StringV(<<97>>)),
            Entry(s_refs, ArrayV(<<StringV(<<97>>), StringV(<<98>>)>>))>>),
     MapV(<<Entry(s_ref, StringV(<<66>>)),
            Entry(s_refs, ArrayV(<<StringV(<<97>>), StringV(<<122>>)>>))>>),
     MapV(<<Entry(s_ref, StringV(<<98>>)),
            Entry(s_refs, ArrayV(<<StringV(<<122>>)>>))>>)}

TeamPool ==
    {MapV(<<>>),
     MapV(<<Entry(s_id, StringV(<<97>>)), Entry(s_ids, ArrayV(<<StringV(<<97>>)>>))>>),
     MapV(<<Entry(s_id, StringV(<<98>>)),
            Entry(s_ids, ArrayV(<<StringV(<<97>>), StringV(<<98>>)>>))>>)}

\* item i of a type whose items are the files "<letter><i>"
FileItems(typeName, letter, datas) ==
    [i \in 1..Len(datas) |->
        NewItem(typeName, <<letter>> \o FormatNat(i), datas[i],
                <<Entry(path_file, <<letter>> \o FormatNat(i))>>, -1)]

\* case_sensitive is a field of every ConstraintDef, also of a foreign_key one
ForeignKeyDefs ==
    {ConstraintDef(<<>>, "foreign_key", key, cs, "type", <<>>, ReferenceDef(t_team, refKey)) :
        key \in {sel_ref, sel_refs_all}, refKey \in {sel_id, sel_ids_all},
        cs \in {"unset", "false"}}

InitForeignKeyInputs ==
    \E od \in SeqsUpTo(OrderPool, MaxOrders), td \in SeqsUpTo(TeamPool, MaxTeams),
       cd \in ForeignKeyDefs :
        /\ items = Corpus({t_order, t_team},
                          [n \in {t_order, t_team} |->
                              IF n = t_order THEN FileItems(t_order, 111, od)
                              ELSE FileItems(t_team, 116, td)])
        /\ typeDefs = <<TypeDef(t_team, <<>>), TypeDef(t_order, <<cd>>)>>

InitForeignKey == InitForeignKeyInputs /\ EngineOnly

SpecForeignKey == InitForeignKey /\ [][Next]_vars

(***************************************************************************)
(* SpecPathEqualsAttr: type user with one path_equals_attr constraint; the *)
(* items are the files "<i>/Alice", with or without the capture path.team. *)
(***************************************************************************)
s_name == <<110, 97, 109, 101>>                              \* "name"
sel_name == <<36, 46, 110, 97, 109, 101>>                    \* "$.name"
path_team == <<112, 97, 116, 104, 46, 116, 101, 97, 109>>    \* "path.team"
str_Alice == <<65, 108, 105, 99, 101>>                       \* "Alice"
str_alice == <<97, 108, 105, 99, 101>>                       \* "alice"
str_bob == <<98, 111, 98>>                                   \* "bob"

AttrPool ==
    {MapV(<<>>),
     MapV(<<Entry(s_name, StringV(str_alice)),
            Entry(s_tags, ArrayV(<<StringV(str_Alice)>>))>>),
     MapV(<<Entry(s_name, StringV(str_Alice)),
            Entry(s_tags, ArrayV(<<StringV(str_Alice), StringV(str_alice)>>))>>),
     MapV(<<Entry(s_name, StringV(str_bob)), Entry(s_tags, ArrayV(<<>>))>>)}

\* the kinds of file: its data, and whether its path gave the capture path.team
FilePool == [data : AttrPool, team : BOOLEAN]

\* item i: the file "<i>/Alice" with path.file "Alice" and, if captured, path.team "bob"
PathItems(files) ==
    [i \in 1..Len(files) |->
        NewItem(t_user, FormatNat(i) \o <<47>> \o str_Alice, files[i].data,
                IF files[i].team
                THEN <<Entry(path_file, str_Alice), Entry(path_team, str_bob)>>
                ELSE <<Entry(path_file, str_Alice)>>,
                -1)]

PathEqualsAttrDefs ==
    {PathEqualsAttrDef(<<>>, ps, refKey, cs) :
        ps \in {path_file, path_team}, refKey \in {sel_name, sel_tags_all},
        cs \in {"unset", "true", "false"}}

InitPathEqualsAttrInputs ==
    \E fs \in SeqsUpTo(FilePool, MaxFiles), cd \in PathEqualsAttrDefs :
        /\ items = Corpus({t_user}, [n \in {t_user} |-> PathItems(fs)])
        /\ typeDefs = <<TypeDef(t_user, <<cd>>)>>

InitPathEqualsAttr == InitPathEqualsAttrInputs /\ EngineOnly

SpecPathEqualsAttr == InitPathEqualsAttr /\ [][Next]_vars

(***************************************************************************)
(* Properties of Evaluate as a whole (Spec).                               *)
(***************************************************************************)
StrLeq(s, t) == s = t \/ StrLess(s, t)

\* e1 is not after e2 in the order (type name, constraint id, file path, row index)
KeyLeq(e1, e2) ==
    \/ StrLess(e1.TypeName, e2.TypeName)
    \/ /\ e1.TypeName = e2.TypeName
       /\ \/ StrLess(e1.ConstraintID, e2.ConstraintID)
          \/ /\ e1.ConstraintID = e2.ConstraintID
             /\ \/ StrLess(e1.FilePath, e2.FilePath)
                \/ /\ e1.FilePath = e2.FilePath
                   /\ e1.RowIndex <= e2.RowIndex

IsSortedByKey(s) == \A i \in 1..(Len(s) - 1) : KeyLeq(s[i], s[i + 1])

\* C1: the slice Evaluate returns is sorted ascending by (type name, constraint
\* id, file path, row index), row index -1 before any row index >= 0, for every
\* order of the input items and every iteration order of the indexes.
C1_ResultSorted == calls # "none" => IsSortedByKey(errs)

\* a call that had to reorder: violations of both types, of two constraints of a
\* type, of two files and of two rows of a file were appended out of order
C1_Witness ==
    /\ calls = "one"
    /\ ~IsSortedByKey(concat)
    /\ \E i, j \in 1..Len(errs) : errs[i].TypeName # errs[j].TypeName
    /\ \E i, j \in 1..Len(errs) :
          /\ errs[i].TypeName = errs[j].TypeName
          /\ errs[i].ConstraintID # errs[j].ConstraintID
    /\ \E i, j \in 1..Len(errs) :
          /\ errs[i].TypeName = errs[j].TypeName
          /\ errs[i].ConstraintID = errs[j].ConstraintID
          /\ errs[i].FilePath = errs[j].FilePath
          /\ errs[i].RowIndex # errs[j].RowIndex
    /\ \E i \in 1..Len(errs) : errs[i].RowIndex = -1 /\ errs[i].FilePath = <<>>

TheUniqueDef == typeDefs[1].Constraints[1]
Users == ItemsOf(items, t_user)

\* the text of the selector holds a wildcard step "[*]"
HasWildcardStep(key) == \E i \in 1..(Len(key) - 2) : SubSeq(key, i, i + 2) = <<91, 42, 93>>

\* the normalized keys of the values the key selector of cd yields for the item
KeysOf(item, cd) ==
    LET vals == SelEvaluate(Parse(cd.Key), item.Data)
    IN [i \in 1..Len(vals) |-> normalizeKey(vals[i], IsCaseSensitive(cd))]

\* the positions of errs that hold a violation located at the item
ViolationsAt(item) ==
    {n \in 1..Len(errs) : /\ errs[n].TypeName = item.TypeName
                          /\ errs[n].FilePath = item.FilePath
                          /\ errs[n].RowIndex = item.RowIndex}

\* every violation is one of the unique constraint, located at some item
AllAtItems(its) ==
    \A n \in 1..Len(errs) :
        /\ errs[n].ConstraintType = "unique"
        /\ \E i \in 1..Len(its) : n \in ViolationsAt(its[i])

\* item i holds a value that another item of the type holds too
SharesKey(its, cd, i) ==
    /\ Len(KeysOf(its[i], cd)) >= 1
    /\ \E j \in 1..Len(its) :
          /\ j # i
          /\ Len(KeysOf(its[j], cd)) >= 1
          /\ KeysOf(its[j], cd)[1] = KeysOf(its[i], cd)[1]

IsTypeScopeCase(cd) == ~HasWildcardStep(cd.Key) /\ cd.Scope = "type"

\* C3: under type-scope unique an item gets exactly one violation iff its key
\* value equals, after normalization, that of another item of the type, and an
\* item without a value gets none: N >= 2 occurrences give N violations, each
\* at the file path and row index of its own occurrence.
C3_TypeScopePerOccurrence ==
    (calls # "none" /\ IsTypeScopeCase(TheUniqueDef)) =>
        /\ AllAtItems(Users)
        /\ \A i \in 1..Len(Users) :
              Cardinality(ViolationsAt(Users[i])) =
                  IF SharesKey(Users, TheUniqueDef, i) THEN 1 ELSE 0

\* three rows of the CSV file hold one value, a fourth item holds none: three violations
C3_Witness ==
    /\ calls = "one"
    /\ IsTypeScopeCase(TheUniqueDef)
    /\ Len(errs) = 3
    /\ \E i \in 1..Len(Users) : KeysOf(Users[i], TheUniqueDef) = <<>>
    /\ \E i \in 1..Len(Users) : Users[i].RowIndex = 2 /\ ViolationsAt(Users[i]) # {}
    /\ \E i \in 1..Len(Users) : Users[i].RowIndex = 0 /\ ViolationsAt(Users[i]) # {}

\* how often the key occurs among keys
Occurrences(keys, key) == Cardinality({p \in 1..Len(keys) : keys[p] = key})

IsItemScopeCase(cd) == HasWildcardStep(cd.Key) \/ cd.Scope = "item"

\* C4: under item-scope unique each item is checked on its own: a value with k
\* occurrences among the values of an item yields k-1 violations at that item,
\* equal values of two different items yield none, and a scalar key with scope
\* "item" yields no violation at all.
C4_ItemScopePerItem ==
    (calls # "none" /\ IsItemScopeCase(TheUniqueDef)) =>
        /\ AllAtItems(Users)
        /\ \A i \in 1..Len(Users) :
              LET keys == KeysOf(Users[i], TheUniqueDef) IN
              \A p \in 1..Len(keys) :
                  Cardinality({n \in ViolationsAt(Users[i]) :
                                  errs[n].Message.args[1] = keys[p]})
                      = Occurrences(keys, keys[p]) - 1
        /\ (~HasWildcardStep(TheUniqueDef.Key) => errs = <<>>)

\* one item holds a value three times (two violations) and another item holds
\* the same value without a violation of its own
C4_Witness ==
    /\ calls = "one"
    /\ IsItemScopeCase(TheUniqueDef)
    /\ \E i, j \in 1..Len(Users) :
          /\ Cardinality(ViolationsAt(Users[i])) = 2
          /\ ViolationsAt(Users[j]) = {}
          /\ \E p \in 1..Len(KeysOf(Users[j], TheUniqueDef)) :
                Occurrences(KeysOf(Users[i], TheUniqueDef),
                            KeysOf(Users[j], TheUniqueDef)[p]) = 3

RECURSIVE SumOver(_, _)
SumOver(f, n) == IF n = 0 THEN 0 ELSE f[n] + SumOver(f, n - 1)

\* the number of violations type-scope semantics gives: the items sharing their key
TypeScopeCount(its, cd) ==
    Cardinality({i \in 1..Len(its) : SharesKey(its, cd, i)})

\* the number of violations item-scope semantics gives: the repeats inside each item
ItemScopeCount(its, cd) ==
    SumOver([i \in 1..Len(its) |->
                Len(KeysOf(its[i], cd))
                    - Cardinality({KeysOf(its[i], cd)[p] : p \in 1..Len(KeysOf(its[i], cd))})],
            Len(its))

\* C5: the unique evaluator uses type-scope semantics iff the key selector has
\* no wildcard segment and scope is "type"; in every other case, also scope
\* "type" with a multi-valued selector, it uses item-scope semantics.
C5_ScopeDispatch ==
    calls # "none" =>
        Len(errs) = IF ~HasWildcardStep(TheUniqueDef.Key) /\ TheUniqueDef.Scope = "type"
                    THEN TypeScopeCount(Users, TheUniqueDef)
                    ELSE ItemScopeCount(Users, TheUniqueDef)

\* scope "type" with a wildcard key, on a corpus where the two semantics differ
C5_Witness ==
    /\ calls = "one"
    /\ HasWildcardStep(TheUniqueDef.Key)
    /\ TheUniqueDef.Scope = "type"
    /\ TypeScopeCount(Users, TheUniqueDef) > ItemScopeCount(Users, TheUniqueDef)
    /\ Len(errs) > 0

\* C6: for unique with scope "type" and a key selector that yields several
\* values per item, each value contributes to the uniqueness set of the type: a
\* value among the values of two different items is reported as a duplicate.
C6_TypeScopeMultiValueGlobal ==
    (calls # "none" /\ HasWildcardStep(TheUniqueDef.Key) /\ TheUniqueDef.Scope = "type") =>
        \A i, j \in 1..Len(Users) :
            (i # j /\ \E p \in 1..Len(KeysOf(Users[i], TheUniqueDef)) :
                         Occurrences(KeysOf(Users[j], TheUniqueDef),
                                     KeysOf(Users[i], TheUniqueDef)[p]) > 0)
                => (ViolationsAt(Users[i]) # {} /\ ViolationsAt(Users[j]) # {})

(***************************************************************************)
(* Properties of the foreign-key evaluator (SpecForeignKey).               *)
(***************************************************************************)
TheForeignKeyDef == typeDefs[2].Constraints[1]
Orders == ItemsOf(items, t_order)
Teams == ItemsOf(items, t_team)

\* the values the selector text yields for the item
ValuesOf(item, selText) == SelEvaluate(Parse(selText), item.Data)

\* the canonical texts of the single values of the referenced items that yield
\* exactly one value
ReferencedKeys(refItems, cd) ==
    {SprintV(ValuesOf(refItems[j], cd.References.Key)[1]) :
        j \in {r \in 1..Len(refItems) : Len(ValuesOf(refItems[r], cd.References.Key)) = 1}}

NotFoundAt(item) ==
    {n \in ViolationsAt(item) : errs[n].Message.format = "foreign key %q not found in %s.%s"}

\* C7: an owning item whose key selector yields exactly one value gets one "not
\* found" violation iff the canonical text of the value is not in the index of
\* the referenced type, which holds the single value of every referenced item
\* yielding exactly one value; referenced items yielding zero or several values
\* add nothing, get no violation and block no lookup; with no referenced items
\* every such owning item is flagged.
C7_ForeignKeyMembership ==
    calls # "none" =>
        /\ \A i \in 1..Len(Orders) :
              Len(ValuesOf(Orders[i], TheForeignKeyDef.Key)) = 1 =>
                  /\ ViolationsAt(Orders[i]) = NotFoundAt(Orders[i])
                  /\ Cardinality(NotFoundAt(Orders[i])) =
                        IF SprintV(ValuesOf(Orders[i], TheForeignKeyDef.Key)[1])
                              \in ReferencedKeys(Teams, TheForeignKeyDef)
                        THEN 0 ELSE 1
        /\ \A n \in 1..Len(errs) : errs[n].TypeName = t_order
        /\ \A j \in 1..Len(Teams) : ViolationsAt(Teams[j]) = {}

\* a referenced item with several values holds the value an owning item asks
\* for, which is flagged; another owning item finds its value and is not
C7_Witness ==
    /\ calls = "one"
    /\ \E j \in 1..Len(Teams) :
          /\ Len(ValuesOf(Teams[j], TheForeignKeyDef.References.Key)) > 1
          /\ \E i \in 1..Len(Orders) :
                /\ Len(ValuesOf(Orders[i], TheForeignKeyDef.Key)) = 1
                /\ NotFoundAt(Orders[i]) # {}
                /\ Occurrences(ValuesOf(Teams[j], TheForeignKeyDef.References.Key),
                               ValuesOf(Orders[i], TheForeignKeyDef.Key)[1]) > 0
    /\ \E i \in 1..Len(Orders) :
          /\ Len(ValuesOf(Orders[i], TheForeignKeyDef.Key)) = 1
          /\ ViolationsAt(Orders[i]) = {}

MultipleValuesAt(item) ==
    {n \in ViolationsAt(item) :
        errs[n].Message.format
            = "key selector %s resolved to multiple values; expected scalar"}

\* how many of the values are in the index of the referenced type
FoundAmong(vals, cd) ==
    Cardinality({p \in 1..Len(vals) : SprintV(vals[p]) \in ReferencedKeys(Teams, cd)})

\* C8: an owning item whose key selector yields no value gets no violation; one
\* whose key selector yields several values gets exactly one violation (multiple
\* values, scalar expected) and no lookup, whether all, some or none of its
\* values are in the referenced index.
C8_ForeignKeyCardinality ==
    calls # "none" =>
        \A i \in 1..Len(Orders) :
            LET vals == ValuesOf(Orders[i], TheForeignKeyDef.Key) IN
            /\ Len(vals) = 0 => ViolationsAt(Orders[i]) = {}
            /\ Len(vals) > 1 => /\ Cardinality(ViolationsAt(Orders[i])) = 1
                                /\ ViolationsAt(Orders[i]) = MultipleValuesAt(Orders[i])

\* two owning items with several values each, one with all of them in the index
\* and one with only one of them
C8_Witness ==
    /\ calls = "one"
    /\ \E i, j \in 1..Len(Orders) :
          LET vi == ValuesOf(Orders[i], TheForeignKeyDef.Key)
              vj == ValuesOf(Orders[j], TheForeignKeyDef.Key)
          IN /\ Len(vi) > 1 /\ FoundAmong(vi, TheForeignKeyDef) = Len(vi)
             /\ Len(vj) > 1 /\ FoundAmong(vj, TheForeignKeyDef) = 1
             /\ Cardinality(MultipleValuesAt(Orders[i])) = 1
             /\ Cardinality(MultipleValuesAt(Orders[j])) = 1

\* an owning item with several values, none of them in the index, next to one without a value
C8_WitnessNoneFound ==
    /\ calls = "one"
    /\ \E i, j \in 1..Len(Orders) :
          LET vi == ValuesOf(Orders[i], TheForeignKeyDef.Key)
          IN /\ Len(vi) > 1 /\ FoundAmong(vi, TheForeignKeyDef) = 0
             /\ Cardinality(MultipleValuesAt(Orders[i])) = 1
             /\ ValuesOf(Orders[j], TheForeignKeyDef.Key) = <<>>
             /\ ViolationsAt(Orders[j]) = {}

(***************************************************************************)
(* Properties of the path-equals-attribute evaluator (SpecPathEqualsAttr). *)
(***************************************************************************)
ThePathDef == typeDefs[1].Constraints[1]

\* the path metadata of the item has the key
HasCapture(item, key) ==
    \E p \in 1..Len(item.PathCaptures) : item.PathCaptures[p].f = key

\* the value of the key in the path metadata of an item that has it
CaptureOf(item, key) ==
    item.PathCaptures[CHOOSE p \in 1..Len(item.PathCaptures) : item.PathCaptures[p].f = key].v

\* the path value and the attribute text are equal under the case policy of cd
SameUnderPolicy(pathVal, text, cd) ==
    IF cd.CaseSensitive = "false" THEN ToLower(pathVal) = ToLower(text) ELSE pathVal = text

\* the message formats of the violations the claim's classification gives the item
ExpectedFormats(item, cd) ==
    IF ~HasCapture(item, cd.PathSelector)
    THEN {"path_selector %q not found in path captures"}
    ELSE LET vals == ValuesOf(item, cd.References.Key) IN
         IF Len(vals) = 0 THEN {"attribute selector %s resolved to no values"}
         ELSE IF Len(vals) > 1
         THEN {"attribute selector %s resolved to multiple values; expected scalar"}
         ELSE IF ~SameUnderPolicy(CaptureOf(item, cd.PathSelector), SprintV(vals[1]), cd)
         THEN {"path value %q does not match attribute value %q"}
         ELSE {}

\* C9: path_equals_attr classifies every item of the owning type in a fixed
\* order and gives it at most one violation: path_selector key absent from the
\* path metadata (attribute not examined), else no attribute value, else several
\* attribute values, else the single value differs from the path value, else none.
C9_PathEqualsAttrClassification ==
    calls # "none" =>
        /\ \A n \in 1..Len(errs) :
                  \E i \in 1..Len(Users) : n \in ViolationsAt(Users[i])
        /\ \A i \in 1..Len(Users) :
              /\ Cardinality(ViolationsAt(Users[i])) <= 1
              /\ {errs[n].Message.format : n \in ViolationsAt(Users[i])}
                    = ExpectedFormats(Users[i], ThePathDef)

\* an item without the capture and without the attribute is reported for the
\* capture; another item has the capture and several attribute values
C9_Witness ==
    /\ calls = "one"
    /\ \E i, j \in 1..Len(Users) :
          /\ ~HasCapture(Users[i], ThePathDef.PathSelector)
          /\ ValuesOf(Users[i], ThePathDef.References.Key) = <<>>
          /\ Cardinality(ViolationsAt(Users[i])) = 1
          /\ HasCapture(Users[j], ThePathDef.PathSelector)
          /\ Len(ValuesOf(Users[j], ThePathDef.References.Key)) > 1
          /\ Cardinality(ViolationsAt(Users[j])) = 1

\* the item has the path value and one attribute value, which differ only in letter case
DiffersOnlyInCase(item, cd) ==
    /\ HasCapture(item, cd.PathSelector)
    /\ Len(ValuesOf(item, cd.References.Key)) = 1
    /\ LET pathVal == CaptureOf(item, cd.PathSelector)
           text == SprintV(ValuesOf(item, cd.References.Key)[1])
       IN pathVal # text /\ ToLower(pathVal) = ToLower(text)

\* C10: with case_sensitive false the path value and the attribute value are
\* both case-folded before comparison, so values that differ only in letter case
\* give no violation; with case_sensitive omitted or true they give exactly one.
C10_PathEqualsAttrCaseFolding ==
    calls # "none" =>
        \A i \in 1..Len(Users) :
            DiffersOnlyInCase(Users[i], ThePathDef) =>
                Cardinality(ViolationsAt(Users[i])) =
                    IF ThePathDef.CaseSensitive = "false" THEN 0 ELSE 1

\* case_sensitive false: path.file "Alice" against the attribute "alice", no violation
C10_Witness ==
    /\ calls = "one"
    /\ ThePathDef.CaseSensitive = "false"
    /\ errs = <<>>
    /\ \E i \in 1..Len(Users) :
          /\ DiffersOnlyInCase(Users[i], ThePathDef)
          /\ CaptureOf(Users[i], ThePathDef.PathSelector) = str_Alice
          /\ SprintV(ValuesOf(Users[i], ThePathDef.References.Key)[1]) = str_alice

\* case_sensitive omitted: the same item is reported once
C10_WitnessDefault ==
    /\ calls = "one"
    /\ ThePathDef.CaseSensitive = "unset"
    /\ \E i \in 1..Len(Users) :
          /\ DiffersOnlyInCase(Users[i], ThePathDef)
          /\ Cardinality(ViolationsAt(Users[i])) = 1

(***************************************************************************)
(* Case policy of the unique evaluator (SpecUnique).                       *)
(***************************************************************************)
\* the canonical texts of the values the selector text yields for the item
TextsOf(item, selText) ==
    LET vals == ValuesOf(item, selText) IN [p \in 1..Len(vals) |-> SprintV(vals[p])]

\* two canonical texts are the same value under the case policy of cd
SameValue(a, b, cd) ==
    IF cd.CaseSensitive = "false" THEN ToLower(a) = ToLower(b) ELSE a = b

\* another item of the type holds the same value as item i under the case policy
SharesValue(its, cd, i) ==
    /\ Len(TextsOf(its[i], cd.Key)) >= 1
    /\ \E j \in 1..Len(its) :
          /\ j # i
          /\ Len(TextsOf(its[j], cd.Key)) >= 1
          /\ SameValue(TextsOf(its[i], cd.Key)[1], TextsOf(its[j], cd.Key)[1], cd)

\* the values of the item that an earlier value of the item equals under the case policy
RepeatsWithin(item, cd) ==
    LET texts == TextsOf(item, cd.Key)
    IN {p \in 1..Len(texts) : \E q \in 1..(p - 1) : SameValue(texts[q], texts[p], cd)}

\* items i and j hold values whose canonical texts differ only in letter case
DifferOnlyInCase(its, cd, i, j) ==
    /\ Len(TextsOf(its[i], cd.Key)) >= 1
    /\ Len(TextsOf(its[j], cd.Key)) >= 1
    /\ TextsOf(its[i], cd.Key)[1] # TextsOf(its[j], cd.Key)[1]
    /\ ToLower(TextsOf(its[i], cd.Key)[1]) = ToLower(TextsOf(its[j], cd.Key)[1])

\* C11: for unique with case_sensitive false, values whose canonical text
\* differs only in letter case are the same value (under type scope every item
\* holding one of them is flagged, under item scope a repeat in another case
\* inside an item is flagged); with case_sensitive true or unset they are
\* distinct values, so an item is flagged only for a value equal letter by letter.
C11_UniqueCaseFolding ==
    calls # "none" =>
        /\ IsTypeScopeCase(TheUniqueDef) =>
              \A i \in 1..Len(Users) :
                  Cardinality(ViolationsAt(Users[i])) =
                      IF SharesValue(Users, TheUniqueDef, i) THEN 1 ELSE 0
        /\ IsItemScopeCase(TheUniqueDef) =>
              \A i \in 1..Len(Users) :
                  Cardinality(ViolationsAt(Users[i])) =
                      Cardinality(RepeatsWithin(Users[i], TheUniqueDef))

\* case_sensitive false under type scope: "a" and "A" in two items, both flagged
C11_Witness ==
    /\ calls = "one"
    /\ TheUniqueDef.CaseSensitive = "false"
    /\ IsTypeScopeCase(TheUniqueDef)
    /\ Len(Users) = 2
    /\ DifferOnlyInCase(Users, TheUniqueDef, 1, 2)
    /\ Cardinality(ViolationsAt(Users[1])) = 1
    /\ Cardinality(ViolationsAt(Users[2])) = 1

\* case_sensitive unset under type scope: the same two items, neither flagged
C11_WitnessDefault ==
    /\ calls = "one"
    /\ TheUniqueDef.CaseSensitive = "unset"
    /\ IsTypeScopeCase(TheUniqueDef)
    /\ Len(Users) = 2
    /\ DifferOnlyInCase(Users, TheUniqueDef, 1, 2)
    /\ errs = <<>>

\* case_sensitive false under item scope: "X" after "x" inside one item is flagged
C11_WitnessItemScope ==
    /\ calls = "one"
    /\ TheUniqueDef.CaseSensitive = "false"
    /\ IsItemScopeCase(TheUniqueDef)
    /\ \E i \in 1..Len(Users) :
          LET texts == TextsOf(Users[i], TheUniqueDef.Key)
          IN /\ \E p, q \in 1..Len(texts) :
                   texts[p] # texts[q] /\ ToLower(texts[p]) = ToLower(texts[q])
             /\ Cardinality(ViolationsAt(Users[i])) = 2

(***************************************************************************)
(* Case policy of the foreign-key evaluator (SpecForeignKey).              *)
(***************************************************************************)
\* the single value of the owning item is in the referenced index only up to letter case
MatchesOnlyUpToCase(item, cd) ==
    /\ Len(ValuesOf(item, cd.Key)) = 1
    /\ LET text == SprintV(ValuesOf(item, cd.Key)[1])
       IN /\ text \notin ReferencedKeys(Teams, cd)
          /\ \E k \in ReferencedKeys(Teams, cd) : ToLower(k) = ToLower(text)

\* C12: foreign_key compares case-sensitively whatever case_sensitive says: an
\* owning value that equals a referenced value only up to letter case does not
\* match, and the owning item gets its "not found" violation.
C12_ForeignKeyAlwaysCaseSensitive ==
    calls # "none" =>
        \A i \in 1..Len(Orders) :
            MatchesOnlyUpToCase(Orders[i], TheForeignKeyDef) =>
                /\ Cardinality(NotFoundAt(Orders[i])) = 1
                /\ ViolationsAt(Orders[i]) = NotFoundAt(Orders[i])

\* case_sensitive false: the owning value "B" against the referenced value "b" is flagged
C12_Witness ==
    /\ calls = "one"
    /\ TheForeignKeyDef.CaseSensitive = "false"
    /\ \E i \in 1..Len(Orders) :
          /\ MatchesOnlyUpToCase(Orders[i], TheForeignKeyDef)
          /\ SprintV(ValuesOf(Orders[i], TheForeignKeyDef.Key)[1]) = <<66>>
          /\ <<98>> \in ReferencedKeys(Teams, TheForeignKeyDef)
          /\ Cardinality(NotFoundAt(Orders[i])) = 1

(***************************************************************************)
(* SpecDefective: type alpha with two sound unique constraints and one     *)
(* defective constraint at any position of its list, and type beta (the    *)
(* rows of one CSV file) with a foreign key into alpha.  No constraint has *)
(* an id of its own.                                                       *)
(***************************************************************************)
sel_empty == <<>>                                       \* ""
sel_no_root == <<105, 100>>                             \* "id"
sel_doubled_dot == <<36, 46, 46, 105, 100>>             \* "$..id"
sel_index == <<36, 91, 48, 93>>                         \* "$[0]"

DefectiveDefs ==
    {UniqueDef(<<>>, sel_trailing_dot, "type", "unset"),
     UniqueDef(<<>>, sel_index, "item", "unset"),
     ConstraintDef(<<>>, "foreign_key", sel_id, "unset", "type", <<>>, NoReferences),
     ForeignKeyDef(<<>>, sel_empty, t_beta, sel_id),
     ForeignKeyDef(<<>>, sel_id, t_beta, sel_no_root),
     ConstraintDef(<<>>, "path_equals_attr", <<>>, "unset", "type", path_file, NoReferences),
     PathEqualsAttrDef(<<>>, path_file, sel_doubled_dot, "unset")}

\* the list s with x put in front of its element number pos + 1
InsertAt(s, pos, x) == SubSeq(s, 1, pos) \o <<x>> \o SubSeq(s, pos + 1, Len(s))

InitDefectiveInputs ==
    \E ad \in SeqsUpTo(AlphaPool, MaxAlphas), bd \in SeqsUpTo(BetaPool, MaxRows),
       d \in DefectiveDefs, pos \in 0..2 :
        /\ items = Corpus({t_alpha, t_beta},
                          [n \in {t_alpha, t_beta} |->
                              IF n = t_alpha THEN AlphaItems(ad) ELSE BetaItems(bd)])
        /\ typeDefs =
              <<TypeDef(t_alpha,
                        InsertAt(<<UniqueDef(<<>>, sel_id, "type", "unset"),
                                   UniqueDef(<<>>, sel_tags_all, "item", "unset")>>, pos, d)),
                TypeDef(t_beta, <<ForeignKeyDef(<<>>, sel_ref, t_alpha, sel_id)>>)>>

InitDefective == InitDefectiveInputs /\ EngineOnly

SpecDefective == InitDefective /\ [][Next]_vars

(***************************************************************************)
(* Properties of defective constraints (SpecDefective).                    *)
(***************************************************************************)
\* the selector text of the constraint does not parse, or its references block is missing
IsDefective(cd) ==
    CASE cd.Type = "unique" -> ~Parse(cd.Key).ok
      [] cd.Type = "foreign_key" ->
            cd.References.isNil \/ ~Parse(cd.Key).ok \/ ~Parse(cd.References.Key).ok
      [] cd.Type = "path_equals_attr" ->
            cd.References.isNil \/ ~Parse(cd.References.Key).ok
      [] OTHER -> FALSE

\* the position, counted from 0, of the defective constraint of type alpha
DefectAt == (CHOOSE p \in 1..Len(typeDefs[1].Constraints) :
                IsDefective(typeDefs[1].Constraints[p])) - 1

\* the positions of errs that hold a violation of the defective constraint
DefectViolations ==
    {n \in 1..Len(errs) : /\ errs[n].TypeName = t_alpha
                          /\ errs[n].ConstraintID = <<35, 48 + DefectAt>>}

\* the sequence s without its element number n
RemoveAt(s, n) == SubSeq(s, 1, n - 1) \o SubSeq(s, n + 1, Len(s))

\* a slot that holds nothing Evaluate evaluates: no case of its switch takes it
NothingToEvaluate == ConstraintDef(<<>>, "", <<>>, "unset", "type", <<>>, NoReferences)

\* the type definitions with the defective constraint absent: its slot holds
\* nothing to evaluate, the other constraints keep their places in the list
WithoutDefect ==
    <<TypeDef(t_alpha, [p \in 1..Len(typeDefs[1].Constraints) |->
                           IF p = DefectAt + 1 THEN NothingToEvaluate
                           ELSE typeDefs[1].Constraints[p]]),
      typeDefs[2]>>

RECURSIVE ConstraintSlots(_, _, _)
\* every constraint of every type definition, from constraint ci of type t on,
\* as the index of its type and its own index
ConstraintSlots(tds, t, ci) ==
    IF t > Len(tds) THEN <<>>
    ELSE IF ci >= Len(tds[t].Constraints) THEN ConstraintSlots(tds, t + 1, 0)
    ELSE <<[t |-> t, ci |-> ci]>> \o ConstraintSlots(tds, t, ci + 1)

RECURSIVE ListsFrom(_, _)
\* the ways to pick one of the violation lists it can yield for every constraint
\* from number k of the slots on
ListsFrom(slots, k) ==
    IF k > Len(slots) THEN {<<>>}
    ELSE {<<l>> \o rest : l \in EvalConstraint(typeDefs[slots[k].t], slots[k].ci, items),
                          rest \in ListsFrom(slots, k + 1)}

\* the ways to pick, for every constraint, one of the violation lists it can yield
ViolationLists == ListsFrom(ConstraintSlots(typeDefs, 1, 0), 1)

\* how often x occurs in the sequence s
CountIn(s, x) == Cardinality({n \in 1..Len(s) : s[n] = x})

\* s holds every violation of the lists as often as the lists together hold it
IsPermutationOfLists(s, lists) ==
    /\ Len(s) = SumOver([k \in 1..Len(lists) |-> Len(lists[k])], Len(lists))
    /\ \A x \in {s[n] : n \in 1..Len(s)}
              \cup UNION {{lists[k][n] : n \in 1..Len(lists[k])} : k \in 1..Len(lists)} :
          CountIn(s, x) = SumOver([k \in 1..Len(lists) |-> CountIn(lists[k], x)], Len(lists))

\* C14: Evaluate never stops early: what it returns is a permutation of the
\* concatenation of the violation lists of every constraint of every type
\* definition; no violation is dropped or duplicated and the length of the
\* result is the sum of the lengths of the lists.
C14_ResultIsPermutationOfAll ==
    calls # "none" => \E lists \in ViolationLists : IsPermutationOfLists(errs, lists)

\* four constraints of two types report, one of them twice for the same file,
\* and the sort had to reorder the concatenation
C14_Witness ==
    /\ calls = "one"
    /\ errs # concat
    /\ \E lists \in ViolationLists :
          /\ IsPermutationOfLists(errs, lists)
          /\ Cardinality({k \in 1..Len(lists) : lists[k] # <<>>}) >= 4
          /\ \E k \in 1..Len(lists) : \E p, q \in 1..Len(lists[k]) :
                p # q /\ lists[k][p].FilePath = lists[k][q].FilePath

(***************************************************************************)
(* SpecParse: selector.Parse on every string built from at most MaxTokens  *)
(* pieces of selector syntax, then String() of the selector it returned.   *)
(***************************************************************************)
\* "$", ".", "a", "[*]", "[0]", "[", "]"
Tokens == {<<36>>, <<46>>, <<97>>, <<91, 42, 93>>, <<91, 48, 93>>, <<91>>, <<93>>}

RECURSIVE Concat(_)
Concat(ss) == IF ss = <<>> THEN <<>> ELSE Head(ss) \o Concat(Tail(ss))

InitParse ==
    /\ \E ts \in SeqsUpTo(Tokens, MaxTokens) : selInput = Concat(ts)
    /\ selData = NilV
    /\ selParsed = NotParsed
    /\ selString = NotRendered
    /\ selScalar = NotAsked
    /\ selValues = NotEvaluated
    /\ items = <<>> /\ typeDefs = <<>>
    /\ NoCallYet /\ NoRun

\* s, err := Parse(selInput)
ParseSelector ==
    /\ ~selParsed.called
    /\ LET r == Parse(selInput)
       IN selParsed' = [called |-> TRUE, ok |-> r.ok, err |-> r.err,
                        raw |-> r.raw, segments |-> r.segments]
    /\ UNCHANGED <<selInput, selString, selScalar, selData, selValues, engineVars, runVars>>

\* s.String() on the selector Parse returned without an error
RenderSelector ==
    /\ selParsed.called /\ selParsed.ok
    /\ ~selString.called
    /\ selString' = [called |-> TRUE, s |-> String(selParsed)]
    /\ UNCHANGED <<selInput, selParsed, selScalar, selData, selValues, engineVars, runVars>>

NextParse == ParseSelector \/ RenderSelector

SpecParse == InitParse /\ [][NextParse]_vars

(***************************************************************************)
(* Properties of Parse and String (SpecParse).                             *)
(***************************************************************************)
\* a non-empty run of characters other than "." and "["
IsName(s) == s # <<>> /\ \A i \in 1..Len(s) : s[i] \notin {46, 91}

RECURSIVE IsSteps(_)
\* zero or more steps, each ".name" or the literal "[*]"
IsSteps(r) ==
    \/ r = <<>>
    \/ /\ Len(r) >= 3
       /\ SubSeq(r, 1, 3) = <<91, 42, 93>>
       /\ IsSteps(SubSeq(r, 4, Len(r)))
    \/ /\ r[1] = 46
       /\ \E n \in 1..(Len(r) - 1) :
             IsName(SubSeq(r, 2, n + 1)) /\ IsSteps(SubSeq(r, n + 2, Len(r)))

\* "$" followed by zero or more steps
InGrammar(s) == s # <<>> /\ s[1] = 36 /\ IsSteps(Tail(s))

RECURSIVE StepsOf(_)
\* the steps of a string of steps, in textual order: a field with its name, or a wildcard
StepsOf(r) ==
    IF r = <<>> THEN <<>>
    ELSE IF r[1] = 91
    THEN <<[field |-> <<>>, wildcard |-> TRUE]>> \o StepsOf(SubSeq(r, 4, Len(r)))
    ELSE LET n == CHOOSE n \in 1..(Len(r) - 1) :
                     IsName(SubSeq(r, 2, n + 1)) /\ IsSteps(SubSeq(r, n + 2, Len(r)))
         IN <<[field |-> SubSeq(r, 2, n + 1), wildcard |-> FALSE]>>
            \o StepsOf(SubSeq(r, n + 2, Len(r)))

\* C15: Parse succeeds exactly on "$" followed by zero or more steps, each
\* ".name" (name a non-empty run of characters other than "." and "[") or
\* "[*]", and fails on every other string; on success the segment list has one
\* field segment per ".name" and one wildcard segment per "[*]", in textual order.
C15_ParseAcceptsGrammar ==
    selParsed.called =>
        /\ selParsed.ok <=> InGrammar(selInput)
        /\ selParsed.ok => selParsed.segments = StepsOf(Tail(selInput))

\* "$.a[*]" parses into the field a and a wildcard
C15_Witness ==
    /\ selParsed.called /\ selParsed.ok
    /\ selInput = <<36, 46, 97, 91, 42, 93>>
    /\ selParsed.segments = <<[field |-> <<97>>, wildcard |-> FALSE],
                              [field |-> <<>>, wildcard |-> TRUE]>>

\* "$.a[0]" is refused
C15_WitnessIndexForm ==
    /\ selParsed.called /\ ~selParsed.ok
    /\ selInput = <<36, 46, 97, 91, 48, 93>>

\* C16: for every string Parse accepts, String() of the parsed selector is that
\* string, unchanged, so different accepted strings have different textual forms.
C16_StringRoundTrip == selString.called => selString.s = selInput

\* "$[*].a]" comes back as it was given
C16_Witness ==
    /\ selString.called
    /\ selInput = <<36, 91, 42, 93, 46, 97, 93>>
    /\ selString.s = selInput
    /\ Len(selParsed.segments) = 2

(***************************************************************************)
(* SpecSelector: Parse on a selector of at most MaxSteps steps among .id,  *)
(* .items and [*], then Evaluate of the selector on a root value: null, a  *)
(* scalar, an array or an object, with arrays of at most MaxElems elements.*)
(***************************************************************************)
s_items == <<105, 116, 101, 109, 115>>      \* "items"

\* ".id", ".items", "[*]"
StepTokens == {<<46>> \o s_id, <<46>> \o s_items, <<91, 42, 93>>}

ElemPool ==
    {NilV, StringV(<<120>>),
     MapV(<<Entry(s_id, StringV(<<97>>))>>),
     MapV(<<Entry(s_id, NilV)>>),
     MapV(<<Entry(s_items, ArrayV(<<StringV(<<120>>), StringV(<<120>>)>>))>>),
     ArrayV(<<MapV(<<Entry(s_id, StringV(<<97>>))>>)>>)}

RootPool ==
    {NilV, StringV(<<120>>), NumberV(1), MapV(<<>>)}
    \cup {ArrayV(e) : e \in SeqsUpTo(ElemPool, MaxElems)}
    \cup {MapV(<<Entry(s_id, StringV(<<97>>)), Entry(s_items, ArrayV(e))>>) :
             e \in SeqsUpTo(ElemPool, MaxElems)}
    \cup {MapV(<<Entry(s_items, v)>>) : v \in ElemPool}

InitSelector ==
    /\ \E ts \in SeqsUpTo(StepTokens, MaxSteps) : selInput = <<36>> \o Concat(ts)
    /\ selData \in RootPool
    /\ selParsed = NotParsed
    /\ selString = NotRendered
    /\ selScalar = NotAsked
    /\ selValues = NotEvaluated
    /\ items = <<>> /\ typeDefs = <<>>
    /\ NoCallYet /\ NoRun

\* results, err := s.Evaluate(selData) on the selector Parse returned
EvaluateSelector ==
    /\ selParsed.called /\ selParsed.ok
    /\ ~selValues.called
    /\ selValues' = [called |-> TRUE, vals |-> SelEvaluate(selParsed, selData), err |-> "nil"]
    /\ UNCHANGED <<selInput, selParsed, selString, selScalar, selData, engineVars, runVars>>

\* s.IsScalar() on the selector Parse returned
AskIsScalar ==
    /\ selParsed.called /\ selParsed.ok
    /\ ~selScalar.called
    /\ selScalar' = [called |-> TRUE, scalar |-> IsScalar(selParsed)]
    /\ UNCHANGED <<selInput, selParsed, selString, selData, selValues, engineVars, runVars>>

NextSelector == ParseSelector \/ EvaluateSelector \/ AskIsScalar

SpecSelector == InitSelector /\ [][NextSelector]_vars

(***************************************************************************)
(* Properties of Selector.Evaluate (SpecSelector).                         *)
(***************************************************************************)
\* the candidate is a mapping that contains the field
HasField(c, field) == c.k = "map" /\ \E p \in 1..Len(c.m) : c.m[p].f = field

\* what one step puts in the place of a candidate
Replacement(c, step) ==
    IF step.wildcard THEN IF c.k = "array" THEN c.e ELSE <<>>
    ELSE IF HasField(c, step.field)
         THEN <<c.m[CHOOSE p \in 1..Len(c.m) : c.m[p].f = step.field].v>>
         ELSE <<>>

\* the working list after one step
AfterStep(cands, step) == Concat([i \in 1..Len(cands) |-> Replacement(cands[i], step)])

RECURSIVE AfterSteps(_, _, _)
\* the working list after the steps number 1 to n, applied left to right
AfterSteps(root, steps, n) ==
    IF n = 0 THEN <<root>> ELSE AfterStep(AfterSteps(root, steps, n - 1), steps[n])

\* the steps the text of the selector spells
TextSteps == StepsOf(Tail(selInput))

\* C17: Evaluate applies the steps left to right to a working list that starts
\* as the root alone: a field step replaces each mapping that contains the
\* field by the value of the field and drops every other candidate, a wildcard
\* step replaces each sequence by its elements in order and drops every other
\* candidate; the result is the final list, duplicates and nulls kept, and "$"
\* returns the root alone.
C17_EvaluateAppliesSteps ==
    selValues.called =>
        /\ selValues.vals = AfterSteps(selData, TextSteps, Len(TextSteps))
        /\ selInput = <<36>> => selValues.vals = <<selData>>

\* "$.items[*].id" on {id: "a", items: [{id: null}, "x"]}: the null is kept, "x" dropped
C17_Witness ==
    /\ selValues.called
    /\ selInput = <<36, 46>> \o s_items \o <<91, 42, 93, 46>> \o s_id
    /\ selData = MapV(<<Entry(s_id, StringV(<<97>>)),
                        Entry(s_items, ArrayV(<<MapV(<<Entry(s_id, NilV)>>),
                                                StringV(<<120>>)>>))>>)
    /\ selValues.vals = <<NilV>>

\* "$[*].items[*]" on an array of two objects with the same items: "x" four times
C17_WitnessDuplicates ==
    /\ selValues.called
    /\ selInput = <<36, 91, 42, 93, 46>> \o s_items \o <<91, 42, 93>>
    /\ selValues.vals = <<StringV(<<120>>), StringV(<<120>>), StringV(<<120>>), StringV(<<120>>)>>

\* the last step of the selector is a field that no candidate it is applied to has
FinalFieldAbsent ==
    /\ TextSteps # <<>>
    /\ ~TextSteps[Len(TextSteps)].wildcard
    /\ LET cands == AfterSteps(selData, TextSteps, Len(TextSteps) - 1)
       IN \A i \in 1..Len(cands) : ~HasField(cands[i], TextSteps[Len(TextSteps)].field)

\* C18: for every parsed selector and every root value, also null, a scalar, a
\* field of the wrong type and an empty array, Evaluate returns a nil error, and
\* when the final field of the selector is absent from the data it returns the
\* empty sequence.
C18_EvaluateNeverFails ==
    selValues.called =>
        /\ selValues.err = "nil"
        /\ FinalFieldAbsent => selValues.vals = <<>>

\* "$.items.id" on {items: "x"}: the field is of the wrong type, nothing is returned
C18_Witness ==
    /\ selValues.called
    /\ selInput = <<36, 46>> \o s_items \o <<46>> \o s_id
    /\ selData = MapV(<<Entry(s_items, StringV(<<120>>))>>)
    /\ FinalFieldAbsent
    /\ selValues.vals = <<>>
    /\ selValues.err = "nil"

\* "$.id" on null
C18_WitnessNull ==
    /\ selValues.called
    /\ selInput = <<36, 46>> \o s_id
    /\ selData = NilV
    /\ selValues.vals = <<>>

(***************************************************************************)
(* Constraint ids of the violations (Spec).                                *)
(***************************************************************************)
\* the id of the constraint in a slot: its own id, or "#" and its index in the
\* constraint list of its type, counted from 0 over all constraints of the type
ExpectedID(slot) ==
    LET cd == typeDefs[slot.t].Constraints[slot.ci + 1]
    IN IF cd.ID # <<>> THEN cd.ID ELSE <<35, 48 + slot.ci>>

\* the violation is one the constraint in the slot yields
YieldedBy(v, slot) ==
    \E l \in EvalConstraint(typeDefs[slot.t], slot.ci, items) :
        \E p \in 1..Len(l) : l[p] = v

\* C19: every violation carries the id its constraint was given by the author
\* when that id is not empty, and otherwise "#<i>", i being the zero-based index
\* of the constraint among all constraints of its type.
C19_ViolationCarriesConstraintID ==
    calls # "none" =>
        LET slots == ConstraintSlots(typeDefs, 1, 0)
        IN \A n \in 1..Len(errs) :
              \E k \in 1..Len(slots) :
                  /\ YieldedBy(errs[n], slots[k])
                  /\ errs[n].ConstraintID = ExpectedID(slots[k])

\* a path_equals_attr constraint reports as "#0", the unique constraint after it
\* as "#1", and a constraint of the other type under the id "b" of its author
C19_Witness ==
    /\ calls = "one"
    /\ \E n \in 1..Len(errs) :
          errs[n].ConstraintType = "path_equals_attr" /\ errs[n].ConstraintID = <<35, 48>>
    /\ \E n \in 1..Len(errs) :
          /\ errs[n].ConstraintType = "unique" /\ errs[n].ConstraintID = <<35, 49>>
          /\ errs[n].TypeName = t_alpha
    /\ \E n \in 1..Len(errs) : errs[n].ConstraintID = <<98>>

(***************************************************************************)
(* internal/cli: the validate command.  The outcome of loading and         *)
(* validating the configuration, the outcome of discovery and the content  *)
(* of the discovered files are what the run finds on disk.  A discovered   *)
(* file is                                                                 *)
(*   [TypeName, Path, PathCaptures, Input, Schema, readErr, perrs, parsed] *)
(* with Input and Schema those of its TypeDef, readErr whether os.ReadFile *)
(* fails, perrs the number of entries parseDataFile returns and parsed the *)
(* data items it returns.  A schema is [properties, required], an object   *)
(* schema without additionalProperties.                                    *)
(***************************************************************************)
ExitOK == 0
ExitConfigInvalid == 1
ExitDataInvalid == 2

\* a reportEntry; Row is -1 for the nil pointer
ReportEntry(level, type, file, row, message) ==
    [Level |-> level, Type |-> type, File |-> file, Row |-> row, Message |-> message]

\* schema.ValidateItem: the schema with the strict_mode overlay, validated by the
\* library, whose error makes the one element of the result
ValidateItem(schemaMap, itemData, strictMode) ==
    LET additionalProperties == ~(strictMode = "ENABLED" \/ strictMode = "FORCE")
    IN IF \E p \in 1..Len(schemaMap.required) :
              ~LookupField(itemData.m, schemaMap.required[p]).exists
       THEN <<"missing required property">>
       ELSE IF /\ ~additionalProperties
               /\ \E p \in 1..Len(itemData.m) : itemData.m[p].f \notin schemaMap.properties
       THEN <<"additional property">>
       ELSE <<>>

\* the loop `for i, data := range parsed` of parseAndValidateFiles for one file:
\* the schema entries and the items of rows i and after
RECURSIVE FileRows(_, _, _)
FileRows(f, i, strictMode) ==
    IF i > Len(f.parsed) THEN [schema |-> <<>>, items |-> <<>>]
    ELSE LET rowIndex == IF f.Input = "csv" THEN i - 1 ELSE -1
             schemaErrs == ValidateItem(f.Schema, f.parsed[i], strictMode)
             rest == FileRows(f, i + 1, strictMode)
         IN [schema |-> [p \in 1..Len(schemaErrs) |->
                            ReportEntry("error", f.TypeName, f.Path, rowIndex, schemaErrs[p])]
                        \o rest.schema,
             items |-> <<NewItem(f.TypeName, f.Path, f.parsed[i], f.PathCaptures, rowIndex)>>
                       \o rest.items]

\* parseAndValidateFiles: the items in file order, the parse entries and the schema entries
RECURSIVE ParseAndValidate(_, _)
ParseAndValidate(files, strictMode) ==
    IF files = <<>> THEN [items |-> <<>>, parse |-> <<>>, schema |-> <<>>]
    ELSE LET f == Head(files)
             rest == ParseAndValidate(Tail(files), strictMode)
         IN IF f.readErr
            THEN [rest EXCEPT !.parse =
                     <<ReportEntry("error", f.TypeName, f.Path, -1, "reading file")>> \o @]
            ELSE IF f.perrs > 0
            THEN [rest EXCEPT !.parse =
                     [p \in 1..f.perrs |-> ReportEntry("error", <<>>, f.Path, -1, "parsing")] \o @]
            ELSE LET rows == FileRows(f, 1, strictMode)
                 IN [items |-> rows.items \o rest.items,
                     parse |-> rest.parse,
                     schema |-> rows.schema \o rest.schema]

\* the items map parseAndValidateFiles returns: the items of each type in file order
ItemsByType(its) ==
    [n \in {its[i].TypeName : i \in 1..Len(its)} |->
        LET RECURSIVE Pick(_)
            Pick(i) == IF i > Len(its) THEN <<>>
                       ELSE IF its[i].TypeName = n THEN <<its[i]>> \o Pick(i + 1)
                       ELSE Pick(i + 1)
        IN Pick(1)]

constraintErrorsToEntries(es) ==
    [i \in 1..Len(es) |->
        ReportEntry("error", es[i].TypeName, es[i].FilePath,
                    IF es[i].RowIndex >= 0 THEN es[i].RowIndex ELSE -1,
                    Msg("[%s] %s", <<es[i].ConstraintType, es[i].Message>>))]

\* RunValidate up to `if len(cfg.Types) == 0`
LoadAndValidateConfig ==
    /\ pc = "start"
    /\ IF disk.configErrs > 0
       THEN /\ entries' = [entries EXCEPT !.reported =
                              [p \in 1..disk.configErrs |->
                                  ReportEntry("error", <<99, 111, 110, 102, 105, 103>>, <<>>, -1,
                                              "config")]]    \* Type "config"
            /\ exitCode' = ExitConfigInvalid
            /\ pc' = "returned"
       ELSE IF disk.configOnly \/ Len(typeDefs) = 0
       THEN /\ exitCode' = ExitOK
            /\ pc' = "returned"
            /\ UNCHANGED entries
       ELSE /\ pc' = "discover"
            /\ UNCHANGED <<entries, exitCode>>
    /\ UNCHANGED <<disk, outputs, engineVars, selVars>>

\* files, discoverErrs := discovery.Discover(rootDir, cfg.Types) and the return on errors
Discover ==
    /\ pc = "discover"
    /\ IF disk.discoverErrs > 0
       THEN /\ entries' = [entries EXCEPT !.reported =
                              [p \in 1..disk.discoverErrs |->
                                  ReportEntry("error", <<100, 105, 115, 99, 111, 118, 101, 114, 121>>,
                                              <<>>, -1, "discovery")]]    \* Type "discovery"
            /\ exitCode' = ExitConfigInvalid
            /\ pc' = "returned"
       ELSE /\ pc' = "parse"
            /\ UNCHANGED <<entries, exitCode>>
    /\ UNCHANGED <<disk, outputs, engineVars, selVars>>

\* items, parseEntries, schemaEntries := parseAndValidateFiles(files, cfg)
ParseAndValidateFiles ==
    /\ pc = "parse"
    /\ LET r == ParseAndValidate(disk.files, disk.strictMode)
       IN /\ items' = ItemsByType(r.items)
          /\ entries' = [entries EXCEPT !.parse = r.parse, !.schema = r.schema]
    /\ pc' = "evaluate"
    /\ UNCHANGED <<disk, exitCode, outputs, typeDefs, errs, concat, prevErrs, calls, selVars>>

\* constraintErrs := constraints.Evaluate(items, cfg.Types) and its entries
EvaluateConstraints ==
    /\ pc = "evaluate"
    /\ \E o \in EvaluateOutcomes(items, typeDefs) :
        /\ errs' = o.errs
        /\ concat' = o.concat
        /\ entries' = [entries EXCEPT !.constraint = constraintErrorsToEntries(o.errs)]
    /\ prevErrs' = errs
    /\ calls' = "one"
    /\ pc' = "report"
    /\ UNCHANGED <<disk, exitCode, outputs, items, typeDefs, selVars>>

\* allEntries and the end of RunValidate
ReportAndReturn ==
    /\ pc = "report"
    /\ LET allEntries == entries.parse \o entries.schema \o entries.constraint
       IN IF Len(allEntries) > 0
          THEN /\ entries' = [entries EXCEPT !.reported = allEntries]
               /\ exitCode' = ExitDataInvalid
          ELSE /\ exitCode' = ExitOK
               /\ UNCHANGED entries
    /\ pc' = "returned"
    /\ UNCHANGED <<disk, outputs, engineVars, selVars>>

RunValidate ==
    \/ LoadAndValidateConfig
    \/ Discover
    \/ ParseAndValidateFiles
    \/ EvaluateConstraints
    \/ ReportAndReturn

(***************************************************************************)
(* SpecValidate: one run of the validate command on a repository with one  *)
(* type, user (JSON files, id and name required, id unique), and at most   *)
(* MaxDiscovered files.                                                    *)
(***************************************************************************)
UserSchema == [properties |-> {s_id, s_name}, required |-> <<s_id, s_name>>]

\* what a file can hold: unreadable, unparsable, or one data item
ContentPool ==
    {[readErr |-> TRUE, perrs |-> 0, parsed |-> <<>>],
     [readErr |-> FALSE, perrs |-> 1, parsed |-> <<>>]}
    \cup {[readErr |-> FALSE, perrs |-> 0, parsed |-> <<d>>] :
            d \in {MapV(<<Entry(s_id, StringV(<<97>>)), Entry(s_name, StringV(<<110>>))>>),
                   MapV(<<Entry(s_id, StringV(<<98>>)), Entry(s_name, StringV(<<110>>))>>),
                   MapV(<<Entry(s_id, StringV(<<97>>))>>),
                   MapV(<<Entry(s_id, StringV(<<99>>)), Entry(s_name, StringV(<<110>>)),
                          Entry(s_tags, ArrayV(<<>>))>>)}}

\* the discovered files "u1", "u2", ... of type user, sorted by path
DiscoveredFiles(contents) ==
    [i \in 1..Len(contents) |->
        [TypeName |-> t_user, Path |-> <<117>> \o FormatNat(i),
         PathCaptures |-> <<Entry(path_file, <<117>> \o FormatNat(i))>>,
         Input |-> "json", Schema |-> UserSchema,
         readErr |-> contents[i].readErr, perrs |-> contents[i].perrs,
         parsed |-> contents[i].parsed]]

InitValidate ==
    /\ \E configOnly \in BOOLEAN, configErrs \in 0..1, discoverErrs \in 0..1,
          strictMode \in {"DISABLED", "ENABLED"},
          contents \in SeqsUpTo(ContentPool, MaxDiscovered) :
            disk = [configOnly |-> configOnly, configErrs |-> configErrs,
                    discoverErrs |-> discoverErrs, strictMode |-> strictMode,
                    files |-> DiscoveredFiles(contents)]
    /\ typeDefs \in {<<>>, <<TypeDef(t_user, <<UniqueDef(<<>>, sel_id, "type", "unset")>>)>>}
    /\ items = <<>>
    /\ pc = "start"
    /\ entries = NoEntries
    /\ exitCode = -1
    /\ outputs = <<>>
    /\ NoCallYet /\ NoSelector

SpecValidate == InitValidate /\ [][RunValidate]_vars

(***************************************************************************)
(* Properties of the validate command (SpecValidate).                      *)
(***************************************************************************)
\* C20: the phases of validation run in sequence and each must succeed before
\* the next runs: constraint evaluation is not run when schema validation
\* reported an error, so a constraint violation is only ever reported for data
\* that passed schema validation.
C20_ConstraintsOnlyAfterSchemaSuccess ==
    /\ calls # "none" => entries.schema = <<>>
    /\ \A c \in 1..Len(entries.constraint) :
          \A e \in 1..Len(entries.schema) :
              ~(/\ entries.schema[e].File = entries.constraint[c].File
                /\ entries.schema[e].Row = entries.constraint[c].Row)

\* a run that reports, for one and the same file, a schema error and a
\* constraint violation, and returns ExitDataInvalid
C20_ViolationOnInvalidData ==
    /\ pc = "returned"
    /\ exitCode = ExitDataInvalid
    /\ \E c \in 1..Len(entries.constraint), e \in 1..Len(entries.schema) :
          /\ entries.schema[e].File = entries.constraint[c].File
          /\ entries.schema[e] \in {entries.reported[n] : n \in 1..Len(entries.reported)}
          /\ entries.constraint[c] \in {entries.reported[n] : n \in 1..Len(entries.reported)}

\* the earlier phases do gate: after a configuration or discovery error nothing
\* is parsed and no constraint is evaluated
C20_ConfigAndDiscoveryGate ==
    (disk.configErrs > 0 \/ disk.discoverErrs > 0 \/ disk.configOnly) =>
        (calls = "none" /\ entries.parse = <<>> /\ entries.schema = <<>>)

(***************************************************************************)
(* internal/cli and internal/export: the export command.  A type           *)
(* definition of an exporting repository carries its Output, the           *)
(* *OutputDef: [isNil |-> TRUE] or [isNil |-> FALSE, Path, Format].  What  *)
(* the run finds on disk also says which paths cannot be written           *)
(* (unwritable) and which output files exist already (outputs).            *)
(***************************************************************************)
ExitExportFailure == 3

NoOutput == [isNil |-> TRUE, Path |-> <<>>, Format |-> ""]
OutputDef(path, format) == [isNil |-> FALSE, Path |-> path, Format |-> format]

\* marshalJSON, marshalYAML and marshalJSONL: the wrapper object keyed by the
\* type name around the array of items, or the items one per line
Marshal(format, typeName, data) ==
    IF format = "jsonl" THEN [format |-> format, lines |-> data]
    ELSE [format |-> format, key |-> typeName, array |-> data]

\* the loop `for typeName, typeItems := range items` of RunExport
ExportData(allItems) ==
    [n \in DOMAIN allItems |-> [i \in 1..Len(allItems[n]) |-> allItems[n][i].Data]]

RECURSIVE Export(_, _, _, _)
\* export.Export: the files after the loop over the type definitions, the
\* results and the errors
Export(exportData, tds, files, unwritable) ==
    IF tds = <<>> THEN [files |-> files, results |-> <<>>, errs |-> <<>>]
    ELSE LET td == Head(tds) IN
         IF td.Output.isNil THEN Export(exportData, Tail(tds), files, unwritable)
         ELSE LET data == ItemsOf(exportData, td.Name)
                  outPath == td.Output.Path
              IN IF td.Output.Format \notin {"json", "yaml", "jsonl"}
                 THEN LET rest == Export(exportData, Tail(tds), files, unwritable)
                      IN [rest EXCEPT !.errs = <<"unsupported output format">> \o @]
                 ELSE IF outPath \in unwritable
                 THEN LET rest == Export(exportData, Tail(tds), files, unwritable)
                      IN [rest EXCEPT !.errs = <<"writing output file">> \o @]
                 ELSE LET content == Marshal(td.Output.Format, td.Name, data)
                          written == [p \in DOMAIN files \cup {outPath} |->
                                         IF p = outPath THEN content ELSE files[p]]
                          rest == Export(exportData, Tail(tds), written, unwritable)
                      IN [rest EXCEPT !.results =
                             <<[TypeName |-> td.Name, Path |-> outPath,
                                Format |-> td.Output.Format, Count |-> Len(data)]>> \o @]

\* RunExport up to the return on discovery errors
ExportLoadAndDiscover ==
    /\ pc = "export"
    /\ IF disk.configErrs > 0
       THEN /\ entries' = [entries EXCEPT !.reported =
                              [p \in 1..disk.configErrs |->
                                  ReportEntry("error", <<99, 111, 110, 102, 105, 103>>, <<>>, -1,
                                              "config")]]    \* Type "config"
            /\ exitCode' = ExitConfigInvalid
            /\ pc' = "returned"
       ELSE IF Len(typeDefs) = 0
       THEN /\ exitCode' = ExitOK
            /\ pc' = "returned"
            /\ UNCHANGED entries
       ELSE IF disk.discoverErrs > 0
       THEN /\ entries' = [entries EXCEPT !.reported =
                              [p \in 1..disk.discoverErrs |->
                                  ReportEntry("error", <<100, 105, 115, 99, 111, 118, 101, 114, 121>>,
                                              <<>>, -1, "discovery")]]    \* Type "discovery"
            /\ exitCode' = ExitConfigInvalid
            /\ pc' = "returned"
       ELSE /\ pc' = "export_data"
            /\ UNCHANGED <<entries, exitCode>>
    /\ UNCHANGED <<disk, outputs, engineVars, selVars>>

\* RunExport going on to the output files whatever validation reported
ExportValidateData_ContinuesOnErrors ==
    /\ pc = "export_data"
    /\ LET r == ParseAndValidate(disk.files, disk.strictMode)
           its == ItemsByType(r.items)
       IN /\ items' = its
          /\ \E o \in EvaluateOutcomes(its, typeDefs) :
                /\ errs' = o.errs
                /\ concat' = o.concat
                /\ entries' = [parse |-> r.parse, schema |-> r.schema,
                               constraint |-> constraintErrorsToEntries(o.errs),
                               reported |-> r.parse \o r.schema
                                            \o constraintErrorsToEntries(o.errs)]
    /\ pc' = "export_write"
    /\ prevErrs' = errs
    /\ calls' = "one"
    /\ UNCHANGED <<disk, outputs, exitCode, typeDefs, selVars>>

\* RunExport from parseAndValidateFiles to the return on data errors
ExportValidateData ==
    /\ pc = "export_data"
    /\ LET r == ParseAndValidate(disk.files, disk.strictMode)
           its == ItemsByType(r.items)
       IN /\ items' = its
          /\ \E o \in EvaluateOutcomes(its, typeDefs) :
                LET constraintEntries == constraintErrorsToEntries(o.errs)
                    allEntries == r.parse \o r.schema \o constraintEntries
                IN /\ errs' = o.errs
                   /\ concat' = o.concat
                   /\ IF Len(allEntries) > 0
                      THEN /\ entries' = [parse |-> r.parse, schema |-> r.schema,
                                          constraint |-> constraintEntries,
                                          reported |-> allEntries]
                           /\ exitCode' = ExitDataInvalid
                           /\ pc' = "returned"
                      ELSE /\ entries' = [entries EXCEPT !.parse = r.parse,
                                                         !.schema = r.schema,
                                                         !.constraint = constraintEntries]
                           /\ pc' = "export_write"
                           /\ UNCHANGED exitCode
    /\ prevErrs' = errs
    /\ calls' = "one"
    /\ UNCHANGED <<disk, outputs, typeDefs, selVars>>

\* RunExport from the check for a type with output to its end
ExportOutputs ==
    /\ pc = "export_write"
    /\ IF \A t \in 1..Len(typeDefs) : typeDefs[t].Output.isNil
       THEN /\ exitCode' = ExitOK
            /\ UNCHANGED <<entries, outputs>>
       ELSE LET r == Export(ExportData(items), typeDefs, outputs, disk.unwritable)
            IN /\ outputs' = r.files
               /\ IF Len(r.errs) > 0
                  THEN /\ entries' = [entries EXCEPT !.reported =
                                         [p \in 1..Len(r.errs) |->
                                             ReportEntry("error", <<101, 120, 112, 111, 114, 116>>, <<>>,
                                                         -1, r.errs[p])]]    \* Type "export"
                       /\ exitCode' = ExitExportFailure
                  ELSE /\ exitCode' = ExitOK
                       /\ UNCHANGED entries
    /\ pc' = "returned"
    /\ UNCHANGED <<disk, engineVars, selVars>>

RunExport ==
    \/ ExportLoadAndDiscover
    \/ ExportValidateData
    \/ ExportOutputs

(***************************************************************************)
(* SpecExport: one run of the export command on a repository with the      *)
(* types user (JSON files, id unique) and team (no files), each with or    *)
(* without an output file, and at most MaxDiscovered files.                *)
(***************************************************************************)
out_user == <<117, 46, 106, 115, 111, 110>>     \* "u.json"
out_team == <<116, 46, 106, 115, 111, 110>>     \* "t.json"

\* cfg.Types of an exporting repository
ExportTypeDefs ==
    {<<>>}
    \cup {<<[Name |-> t_user, Constraints |-> <<UniqueDef(<<>>, sel_id, "type", "unset")>>,
             Output |-> uo],
            [Name |-> t_team, Constraints |-> <<>>, Output |-> to]>> :
            uo \in {NoOutput, OutputDef(out_user, "json")},
            to \in {NoOutput, OutputDef(out_team, "jsonl")}}

\* the output file an earlier export of type user left
EarlierExport == Marshal("json", t_user, <<MapV(<<>>)>>)

InitExport ==
    /\ \E configErrs \in 0..1, discoverErrs \in 0..1,
          contents \in SeqsUpTo(ContentPool, MaxDiscovered),
          existing \in SUBSET {out_user}, unwritable \in SUBSET {out_team} :
            /\ disk = [configOnly |-> FALSE, configErrs |-> configErrs,
                       discoverErrs |-> discoverErrs, strictMode |-> "DISABLED",
                       files |-> DiscoveredFiles(contents), unwritable |-> unwritable,
                       outputs |-> [p \in existing |-> EarlierExport]]
            /\ outputs = [p \in existing |-> EarlierExport]
    /\ typeDefs \in ExportTypeDefs
    /\ items = <<>>
    /\ pc = "export"
    /\ entries = NoEntries
    /\ exitCode = -1
    /\ NoCallYet /\ NoSelector

SpecExport == InitExport /\ [][RunExport]_vars

(***************************************************************************)
(* Properties of the export command (SpecExport).                          *)
(***************************************************************************)
\* the run has reported an error of configuration or discovery
ConfigOrDiscoveryErrorFound ==
    \E n \in 1..Len(entries.reported) :
        entries.reported[n].Type \in {<<99, 111, 110, 102, 105, 103>>,    \* "config"
                                     <<100, 105, 115, 99, 111, 118, 101, 114, 121>>}    \* "discovery"

\* the run has found an error of parsing, of a schema or of a constraint
DataErrorFound ==
    entries.parse # <<>> \/ entries.schema # <<>> \/ entries.constraint # <<>>

\* C21: export runs the whole validation first: once an error of
\* configuration, discovery, parsing, schema or constraint is found no output
\* file is created or overwritten and the command returns 1 (configuration,
\* discovery) or 2 (data); an output file is written only after validation ran
\* to its end without an error.
C21_ExportOnlyAfterCleanValidation ==
    /\ (ConfigOrDiscoveryErrorFound \/ DataErrorFound) =>
          /\ outputs = disk.outputs
          /\ pc = "returned"
          /\ exitCode = IF ConfigOrDiscoveryErrorFound THEN 1 ELSE 2
    /\ outputs # disk.outputs =>
          /\ calls = "one"
          /\ ~ConfigOrDiscoveryErrorFound /\ ~DataErrorFound

\* two files with the same id: export returns 2 and the output file of an
\* earlier export is left as it was
C21_Witness ==
    /\ pc = "returned"
    /\ exitCode = 2
    /\ entries.constraint # <<>>
    /\ \E t \in 1..Len(typeDefs) : ~typeDefs[t].Output.isNil
    /\ out_user \in DOMAIN disk.outputs
    /\ outputs = disk.outputs

\* a clean repository: the output file of an earlier export is overwritten
\* with the two items
C21_WitnessExported ==
    /\ pc = "returned"
    /\ exitCode = 0
    /\ out_user \in DOMAIN disk.outputs
    /\ outputs # disk.outputs
    /\ Len(outputs[out_user].array) = 2

(***************************************************************************)
(* Order of the result across the constraints of a type (Spec).            *)
(***************************************************************************)
\* C22: constraint errors come in a stable order by type, then file path, then
\* row index: among the errors of one type an error for a smaller file path
\* always precedes an error for a larger file path, whichever constraints
\* produced them (errors of a constraint as a whole, which have no file path,
\* left aside).
C22_OrderedByTypeThenFilePath ==
    calls # "none" =>
        \A i, j \in 1..Len(errs) :
            (/\ errs[i].TypeName = errs[j].TypeName
             /\ errs[i].FilePath # <<>>
             /\ StrLess(errs[i].FilePath, errs[j].FilePath)) => i < j

\* the result of a call in which, within one type, a violation of one
\* constraint for a larger file path stands before a violation of another
\* constraint for a smaller file path
C22_LargerPathFirst ==
    /\ calls = "one"
    /\ \E i, j \in 1..Len(errs) :
          /\ i < j
          /\ errs[i].TypeName = errs[j].TypeName
          /\ errs[i].ConstraintID # errs[j].ConstraintID
          /\ errs[i].FilePath # <<>>
          /\ StrLess(errs[j].FilePath, errs[i].FilePath)

\* the two violations tie on (type name, constraint id, file path, row index)
TieOnKey(e1, e2) ==
    /\ e1.TypeName = e2.TypeName
    /\ e1.ConstraintID = e2.ConstraintID
    /\ e1.FilePath = e2.FilePath
    /\ e1.RowIndex = e2.RowIndex

RECURSIVE TiedWith(_, _)
\* the violations of s that tie with e, in their order in s
TiedWith(s, e) ==
    IF s = <<>> THEN <<>>
    ELSE IF TieOnKey(Head(s), e) THEN <<Head(s)>> \o TiedWith(Tail(s), e)
    ELSE TiedWith(Tail(s), e)

C23_TiedSwapped ==
    /\ calls = "one"
    /\ \E n \in 1..Len(errs) :
          /\ Len(TiedWith(errs, errs[n])) = 2
          /\ TiedWith(errs, errs[n]) = Reverse(TiedWith(concat, errs[n]))
          /\ TiedWith(errs, errs[n])[1] # TiedWith(errs, errs[n])[2]

(***************************************************************************)
(* The value a unique violation displays (SpecUnique).                     *)
(***************************************************************************)
\* C24: with case_sensitive false a unique constraint compares the values
\* after case folding, but the message of a violation displays the original,
\* unfolded text of the conflicting value held by the flagged occurrence, under
\* type scope and under item scope.
C24_MessageShowsOriginalValue ==
    (calls # "none" /\ TheUniqueDef.CaseSensitive = "false") =>
        \A i \in 1..Len(Users) : \A n \in ViolationsAt(Users[i]) :
            LET texts == TextsOf(Users[i], TheUniqueDef.Key)
            IN IF IsTypeScopeCase(TheUniqueDef)
               THEN errs[n].Message.args[1] = texts[1]
               ELSE \E p \in RepeatsWithin(Users[i], TheUniqueDef) :
                       errs[n].Message.args[1] = texts[p]

\* case_sensitive false under type scope: the item holding "A" is flagged with
\* a message that displays "a"
C24_FoldedValueDisplayed ==
    /\ calls = "one"
    /\ TheUniqueDef.CaseSensitive = "false"
    /\ IsTypeScopeCase(TheUniqueDef)
    /\ \E i \in 1..Len(Users) : \E n \in ViolationsAt(Users[i]) :
          /\ TextsOf(Users[i], TheUniqueDef.Key) = <<<<65>>>>
          /\ errs[n].Message.args[1] = <<97>>

(***************************************************************************)
(* Scalar selectors (SpecSelector).                                        *)
(***************************************************************************)
RECURSIVE Walk(_, _)
\* following the field steps from a value: the value reached, or nothing when a
\* value on the way is not a mapping or lacks the field
Walk(v, steps) ==
    IF steps = <<>> THEN <<v>>
    ELSE IF HasField(v, Head(steps).field)
    THEN Walk(v.m[CHOOSE p \in 1..Len(v.m) : v.m[p].f = Head(steps).field].v, Tail(steps))
    ELSE <<>>

C25_WitnessWildcard ==
    /\ selScalar.called /\ ~selScalar.scalar /\ selValues.called
    /\ selInput = <<36, 46>> \o s_items \o <<91, 42, 93>>
    /\ Len(selValues.vals) = 2

\* "$.items" is scalar and yields the one value of the field, a sequence of two
C25_WitnessOne ==
    /\ selScalar.called /\ selScalar.scalar /\ selValues.called
    /\ selInput = <<36, 46>> \o s_items
    /\ Len(selValues.vals) = 1
    /\ selValues.vals[1].k = "array" /\ Len(selValues.vals[1].e) = 2

(***************************************************************************)
(* What a call of Evaluate leaves behind (Spec).                           *)
(***************************************************************************)
\* C26: Evaluate treats its inputs as read-only and keeps no state between
\* calls: a call leaves every item (data, path metadata, file path, row index)
\* and every type and constraint definition as it was, and what it returns is
\* a result of evaluating the inputs afresh, whatever the calls before returned.
C26_InputsReadOnlyNoState ==
    [][/\ items' = items
       /\ typeDefs' = typeDefs
       /\ \E o \in EvaluateOutcomes(items, typeDefs) : o.errs = errs']_vars

\* a second call has returned violations, as the call before it did
C26_Witness ==
    /\ calls = "many"
    /\ Len(errs) >= 3
    /\ Len(prevErrs) = Len(errs)

(***************************************************************************)
(* Evaluate under reordering of its inputs (Spec).                         *)
(***************************************************************************)
\* the sequences that hold the elements of s in another (or the same) order
Reorderings(s) == {[i \in 1..Len(s) |-> s[p[i]]] : p \in Permutations(1..Len(s))}

\* the corpus with the items of each type in any order
ReorderedCorpora ==
    {[n \in DOMAIN items |-> IF n = t_alpha THEN a ELSE b] :
        a \in Reorderings(ItemsOf(items, t_alpha)),
        b \in Reorderings(ItemsOf(items, t_beta))}

\* s and t hold the same violations, each as often in s as in t
SameViolations(s, t) ==
    /\ Len(s) = Len(t)
    /\ \A n \in 1..Len(s) : CountIn(s, s[n]) = CountIn(t, s[n])

\* C27: the multiset of violations Evaluate returns does not change when the
\* items within a type are reordered, nor when the type definitions are
\* reordered, each keeping its own constraint list: duplicates, foreign-key
\* misses and path mismatches are decided on the whole corpus.  (The
\* violations of the reordered inputs are taken as Evaluate appends them: its
\* sort only rearranges them.)
C27_SameViolationsInAnyOrder ==
    calls # "none" =>
        \A its \in ReorderedCorpora : \A tds \in Reorderings(typeDefs) :
            \A c \in AppendTypes(tds, its) : SameViolations(c, errs)

\* three items of a type, two of them with the same id and the third between
\* them, and a row with a foreign-key miss: duplicates and the miss are reported
C27_Witness ==
    /\ calls = "one"
    /\ LET as == ItemsOf(items, t_alpha)
       IN /\ Len(as) = 3
          /\ SprintV(ValuesOf(as[1], sel_id)[1]) = SprintV(ValuesOf(as[3], sel_id)[1])
          /\ SprintV(ValuesOf(as[1], sel_id)[1]) # SprintV(ValuesOf(as[2], sel_id)[1])
    /\ \E n \in 1..Len(errs) : errs[n].ConstraintType = "unique" /\ errs[n].TypeName = t_alpha
    /\ \E n \in 1..Len(errs) : errs[n].ConstraintType = "foreign_key"

\* two items whose path value differs from the attribute, in the reverse order
C27_WitnessPath ==
    /\ calls = "one"
    /\ Cardinality({n \in 1..Len(errs) : errs[n].ConstraintType = "path_equals_attr"}) = 2
    /\ typeDefs[1].Name = t_beta

(***************************************************************************)
(* SpecKeys: type user with one constraint on "$.id", type team that the   *)
(* foreign key may reference and that may have no type definition; the     *)
(* keys are of every kind of JSON scalar, null included.                   *)
(***************************************************************************)
\* no "id", or an "id" that is 1, "1", true, "true", null or "<nil>"
KeyDataPool ==
    {MapV(<<>>)} \cup
    {MapV(<<Entry(s_id, v)>>) :
        v \in {NumberV(1), StringV(<<49>>), BoolV(TRUE), StringV(<<116, 114, 117, 101>>),
               NilV, StringV(<<60, 110, 105, 108, 62>>)}}

\* item i of a type whose items are the files "<letter>/<i>", path.file is "<i>"
KeyItems(typeName, letter, datas) ==
    [i \in 1..Len(datas) |->
        NewItem(typeName, <<letter, 47>> \o FormatNat(i), datas[i],
                <<Entry(path_file, FormatNat(i))>>, -1)]

InitKeys ==
    /\ \E ud \in SeqsUpTo(KeyDataPool, MaxOwners), td \in SeqsUpTo(KeyDataPool, MaxReferenced),
          cd \in {UniqueDef(<<>>, sel_id, "type", "unset"),
                  ForeignKeyDef(<<>>, sel_id, t_team, sel_id),
                  ForeignKeyDef(<<>>, sel_id, t_user, sel_id),
                  PathEqualsAttrDef(<<>>, path_file, sel_id, "unset")},
          teamDefined \in BOOLEAN :
        /\ items = Corpus({t_user, t_team},
                          [n \in {t_user, t_team} |->
                              IF n = t_user THEN KeyItems(t_user, 117, ud)
                              ELSE KeyItems(t_team, 116, td)])
        /\ typeDefs = (IF teamDefined THEN <<TypeDef(t_team, <<>>)>> ELSE <<>>)
                          \o <<TypeDef(t_user, <<cd>>)>>
    /\ EngineOnly

SpecKeys == InitKeys /\ [][Next]_vars

\* the one constraint of type user, and the items of the type it references
TheKeyDef == typeDefs[Len(typeDefs)].Constraints[1]
Referenced == ItemsOf(items, TheKeyDef.References.Type)

\* two values of different kinds (number, string, boolean, null) with one text
SameTextOtherKind(v, w) == v.k # w.k /\ SprintV(v) = SprintV(w)

\* C28: values are compared by their canonical text only: under unique two
\* items whose keys are of different kinds with the same text (number 1 and
\* string "1", boolean true and string "true") are both flagged as duplicates;
\* under foreign_key an owner whose key has the text of a referenced key of
\* another kind is not flagged; under path_equals_attr an attribute that is
\* not a string and has the text of the path value is not flagged.
C28_ComparedByCanonicalText ==
    calls # "none" =>
        \A i \in 1..Len(Users) :
            LET ki == ValuesOf(Users[i], sel_id)
            IN Len(ki) = 1 =>
                /\ (/\ TheKeyDef.Type = "unique"
                    /\ \E j \in 1..Len(Users) :
                          LET kj == ValuesOf(Users[j], sel_id)
                          IN j # i /\ Len(kj) = 1 /\ SameTextOtherKind(ki[1], kj[1]))
                      => Cardinality(ViolationsAt(Users[i])) = 1
                /\ (/\ TheKeyDef.Type = "foreign_key"
                    /\ \E j \in 1..Len(Referenced) :
                          LET kj == ValuesOf(Referenced[j], sel_id)
                          IN Len(kj) = 1 /\ SameTextOtherKind(ki[1], kj[1]))
                      => ViolationsAt(Users[i]) = {}
                /\ (/\ TheKeyDef.Type = "path_equals_attr"
                    /\ ki[1].k # "string"
                    /\ SprintV(ki[1]) = CaptureOf(Users[i], path_file))
                      => ViolationsAt(Users[i]) = {}

\* number 1 and string "1" under unique, both flagged
C28_Witness ==
    /\ calls = "one"
    /\ TheKeyDef.Type = "unique"
    /\ Len(Users) = 2
    /\ ValuesOf(Users[1], sel_id) = <<NumberV(1)>>
    /\ ValuesOf(Users[2], sel_id) = <<StringV(<<49>>)>>
    /\ Len(errs) = 2

\* an owner with boolean true, the team with string "true": no violation
C28_WitnessForeignKey ==
    /\ calls = "one"
    /\ TheKeyDef.Type = "foreign_key" /\ TheKeyDef.References.Type = t_team
    /\ Len(Users) = 1 /\ Len(Teams) = 1
    /\ ValuesOf(Users[1], sel_id) = <<BoolV(TRUE)>>
    /\ ValuesOf(Teams[1], sel_id) = <<StringV(<<116, 114, 117, 101>>)>>
    /\ errs = <<>>

\* the file "u/1" with the number 1 as its id: no violation
C28_WitnessPath ==
    /\ calls = "one"
    /\ TheKeyDef.Type = "path_equals_attr"
    /\ Len(Users) = 1
    /\ ValuesOf(Users[1], sel_id) = <<NumberV(1)>>
    /\ Users[1].FilePath = <<117, 47, 49>>
    /\ errs = <<>>

\* the "id" of the item's data is present and null
HasNullId(item) == item.Data.m = <<Entry(s_id, NilV)>>

\* the "id" of the item's data is present with the text fmt prints for null
HasNullTextId(item) ==
    /\ item.Data.m # <<>>
    /\ SprintV(item.Data.m[1].v) = <<60, 110, 105, 108, 62>>

\* C29 as stated: a key that is present and null is one matched value: under
\* unique with type scope two items with a null key are each flagged; under
\* foreign_key an owner with a null key is looked up, and is flagged unless
\* some referenced item's key is null too.
C29_NullKeyLookedUpAgainstNull ==
    calls # "none" =>
        \A i \in 1..Len(Users) :
            HasNullId(Users[i]) =>
                /\ (/\ TheKeyDef.Type = "unique"
                    /\ \E j \in 1..Len(Users) : j # i /\ HasNullId(Users[j]))
                      => Cardinality(ViolationsAt(Users[i])) = 1
                /\ TheKeyDef.Type = "foreign_key" =>
                      Cardinality(NotFoundAt(Users[i])) =
                          IF \E j \in 1..Len(Referenced) : HasNullId(Referenced[j])
                          THEN 0 ELSE 1

\* C29 amended: as above, but the owner with a null key is flagged unless some
\* referenced item's key has the canonical text of null, "<nil>": a null, or
\* the string "<nil>".
C29_NullKeyLookedUpByText ==
    calls # "none" =>
        \A i \in 1..Len(Users) :
            HasNullId(Users[i]) =>
                /\ (/\ TheKeyDef.Type = "unique"
                    /\ \E j \in 1..Len(Users) : j # i /\ HasNullId(Users[j]))
                      => Cardinality(ViolationsAt(Users[i])) = 1
                /\ TheKeyDef.Type = "foreign_key" =>
                      Cardinality(NotFoundAt(Users[i])) =
                          IF \E j \in 1..Len(Referenced) : HasNullTextId(Referenced[j])
                          THEN 0 ELSE 1

\* two users with a null id under unique, both flagged
C29_Witness ==
    /\ calls = "one"
    /\ TheKeyDef.Type = "unique"
    /\ Len(Users) = 2 /\ HasNullId(Users[1]) /\ HasNullId(Users[2])
    /\ Len(errs) = 2

\* an owner with a null id, the team's id is 1: flagged
C29_WitnessNotFound ==
    /\ calls = "one"
    /\ TheKeyDef.Type = "foreign_key" /\ TheKeyDef.References.Type = t_team
    /\ Len(Users) = 1 /\ HasNullId(Users[1])
    /\ Len(Teams) = 1 /\ Teams[1].Data.m = <<Entry(s_id, NumberV(1))>>
    /\ Cardinality(NotFoundAt(Users[1])) = 1

\* an owner with a null id, the team's id is null: not flagged
C29_WitnessFound ==
    /\ calls = "one"
    /\ TheKeyDef.Type = "foreign_key" /\ TheKeyDef.References.Type = t_team
    /\ Len(Users) = 1 /\ HasNullId(Users[1])
    /\ Len(Teams) = 1 /\ HasNullId(Teams[1])
    /\ errs = <<>>

\* an owner with a null id, the team's id is the string "<nil>": not flagged
C29_WitnessNullText ==
    /\ calls = "one"
    /\ TheKeyDef.Type = "foreign_key" /\ TheKeyDef.References.Type = t_team
    /\ Len(Users) = 1 /\ HasNullId(Users[1])
    /\ Len(Teams) = 1 /\ Teams[1].Data.m = <<Entry(s_id, StringV(<<60, 110, 105, 108, 62>>))>>
    /\ errs = <<>>

\* the canonical text of the item's "id": no text when the data has no "id"
IdTexts(item) == IF item.Data.m = <<>> THEN <<>> ELSE <<SprintV(item.Data.m[1].v)>>

\* the user violates the one constraint of its type
Triggers(u) ==
    CASE TheKeyDef.Type = "unique" ->
             /\ IdTexts(u) # <<>>
             /\ \E j \in 1..Len(Users) : Users[j] # u /\ IdTexts(Users[j]) = IdTexts(u)
      [] TheKeyDef.Type = "foreign_key" ->
             /\ IdTexts(u) # <<>>
             /\ \A j \in 1..Len(Referenced) : IdTexts(Referenced[j]) # IdTexts(u)
      [] TheKeyDef.Type = "path_equals_attr" ->
             IdTexts(u) # <<CaptureOf(u, path_file)>>

\* C30: every violation of the constraint of type user carries the type name
\* user, the constraint's id and kind, and the file path and row index of a user
\* that triggered it; no violation is located at an item of team, whether the
\* foreign key references team or not and whether team has a type definition
\* or not.
C30_ViolationsLocatedAtOwners ==
    calls # "none" =>
        /\ \A n \in 1..Len(errs) :
              /\ errs[n].TypeName = t_user
              /\ errs[n].ConstraintID = <<35, 48>>
              /\ errs[n].ConstraintType = TheKeyDef.Type
              /\ \E i \in 1..Len(Users) :
                    /\ errs[n].FilePath = Users[i].FilePath
                    /\ errs[n].RowIndex = Users[i].RowIndex
                    /\ Triggers(Users[i])
        /\ \A j \in 1..Len(Teams) : \A n \in 1..Len(errs) :
              errs[n].FilePath # Teams[j].FilePath

\* a foreign key into team, which has an item and no type definition: the one
\* violation is at the user
C30_Witness ==
    /\ calls = "one"
    /\ TheKeyDef.Type = "foreign_key" /\ TheKeyDef.References.Type = t_team
    /\ Len(typeDefs) = 1
    /\ Len(Users) = 1 /\ Len(Teams) = 1
    /\ IdTexts(Teams[1]) # <<>>
    /\ Len(errs) = 1 /\ errs[1].FilePath = Users[1].FilePath

\* two users and a team with the id 1 under unique: only the users are flagged
C30_WitnessUnique ==
    /\ calls = "one"
    /\ TheKeyDef.Type = "unique"
    /\ Len(Users) = 2 /\ Len(Teams) = 1
    /\ IdTexts(Teams[1]) = <<<<49>>>>
    /\ IdTexts(Users[1]) = <<<<49>>>> /\ IdTexts(Users[2]) = <<<<49>>>>
    /\ Len(errs) = 2

====
